---- MODULE Spec2Model ----
(***************************************************************************)
(* The configuration Coordinator of SigNoz/alertmanager                    *)
(* (src/config/coordinator.go, second Coordinator of the file, lines       *)
(* 306-533), the Config mutations and Validate of src/config/config.go,    *)
(* and the query-service ConfigLoader                                      *)
(* (src/integrations/queryservice/configLoader.go).                        *)
(*                                                                         *)
(* Go memory is modelled as far as the code shares it.  A Config value     *)
(* holds a pointer to its root Route and a slice header over a backing     *)
(* array of receivers.  `conf := *c.config` copies the pointer and the     *)
(* header, so the copy and the live Config share the root Route object     *)
(* and the backing array: routeObj and recvArr are those two heaps.        *)
(***************************************************************************)
EXTENDS Integers, Sequences, FiniteSets, TLC

\* ------------------------------------------------------------------ bounds
NProcs == 2        \* concurrent callers of the Coordinator
MaxSubs == 2       \* subscribers registered at most
MaxRoutes == 2     \* AddRoute is called only while the root has fewer children
MaxChannels == 2   \* channels the query service returns at most

Procs == 1..NProcs
HeapIds == 1..(NProcs + 1)

\* ------------------------------------------------------------- value sets
DefaultReceiver == "default-receiver"
Names == {"a"}

\* A Receiver: its Name and its Slack integration: "none" (no slack_configs),
\* "url" (a slack config with api_url), "nourl" (a slack config without
\* api_url, which Validate rejects when Global has no Slack API URL either).
Rcv(n, s) == [nil |-> FALSE, Name |-> n, Slack |-> s]
NilReceiver == [nil |-> TRUE, Name |-> "", Slack |-> "none"]
\* A Route: the receiver it names and its continue flag.
Rt(n, c) == [nil |-> FALSE, Receiver |-> n, Continue |-> c]
NilRoute == [nil |-> TRUE, Receiver |-> "", Continue |-> FALSE]

RouteArgs == {NilRoute} \cup {Rt(n, c) : n \in Names \cup {""}, c \in BOOLEAN}
ReceiverArgs ==
    {NilReceiver} \cup
    {Rcv(n, s) : n \in Names \cup {"", DefaultReceiver}, s \in {"url", "nourl"}}
NameArgs == Names \cup {"", DefaultReceiver}

\* One channel record of the query service: whether its data decodes, and the
\* receiver it decodes to.
Channel(ok, n, s) == [ok |-> ok, Name |-> n, Slack |-> s]
ChannelItems ==
    {Channel(FALSE, "", "none")} \cup
    {Channel(TRUE, n, s) : n \in Names, s \in {"url", "nourl"}}

\* What the query service answers to getChannels: an error, or a list of
\* channels.
RECURSIVE SeqsUpTo(_, _)
SeqsUpTo(S, n) ==
    IF n = 0 THEN {<<>>}
    ELSE LET shorter == SeqsUpTo(S, n - 1)
         IN  shorter \cup {Append(q, x) : q \in {t \in shorter : Len(t) = n - 1}, x \in S}

Answers ==
    {[fetched |-> FALSE, channels |-> <<>>]} \cup
    {[fetched |-> TRUE, channels |-> q] : q \in SeqsUpTo(ChannelItems, MaxChannels)}

\* ------------------------------------------------------------------ state
VARIABLES
    mutex,               \* Coordinator.mutex: TRUE while locked
    config,              \* Coordinator.config (a *Config; set = FALSE is nil)
    subscribers,         \* Coordinator.subscribers
    configSuccessMetric, \* alertmanager_config_last_reload_successful
    configHashMetric,    \* alertmanager_config_hash
    configFile,          \* the text of the file at Coordinator.configFilePath
    configOnDisk,        \* Coordinator.configOnDisk (file-backed Coordinator)
    replay,              \* history: the Coordinator had the rejected calls not been made
    routeObj,            \* heap: the root Route objects
    recvArr,             \* heap: the backing arrays of Receivers slices
    pc,                  \* each caller's position in its call
    call,                \* each caller's operation and the name it is about
    conf,                \* each caller's local conf
    err,                 \* each caller's error to return
    idx,                 \* each caller's position in notifySubscribers
    pre,                 \* history: the live Config when the call took the lock
    calls,               \* history: the subscribers the call invoked, with arguments
    registered,          \* history: the callbacks Subscribe calls have registered
    lastAdd,             \* history: the last call, when a successful AddRoute
    args,                \* history: the arguments of a method called on a Config
    run                  \* a function applied to a value: the value and the results

vars == <<mutex, config, subscribers, configSuccessMetric, configHashMetric,
          configFile, configOnDisk, replay,
          routeObj, recvArr, pc, call, conf, err, idx, pre, calls, registered,
          lastAdd, args, run>>

\* ------------------------------------------------------------ Config data
EmptyRoot == [Receiver |-> "", Continue |-> FALSE, Routes |-> <<>>]
EmptyView == [Route |-> EmptyRoot, Receivers |-> <<>>]
\* The file-backed Coordinator is not in use: there is no file at
\* configFilePath.
NoFile == [exists |-> FALSE]
\* No replay is kept.
NoReplay == [set |-> FALSE]
NilConfig ==
    [set |-> FALSE, Route |-> 0, Receivers |-> [arr |-> 0, len |-> 0],
     original |-> EmptyView]

\* The receivers a Config value sees: the first len elements of its array.
ReceiversOf(c, ra) ==
    IF c.set THEN SubSeq(ra[c.Receivers.arr], 1, c.Receivers.len) ELSE <<>>

\* What a Config value holds, pointers followed.
ViewOf(c, ro, ra) ==
    IF c.set THEN [Route |-> ro[c.Route], Receivers |-> ReceiversOf(c, ra)]
    ELSE EmptyView

LiveView == ViewOf(config, routeObj, recvArr)

NoError == "nil"

\* The result of a Config method: its error, the receiver's Config value and
\* the heaps as the method leaves them.
Res(e, c, ro, ra) == [err |-> e, c |-> c, ro |-> ro, ra |-> ra]

\* --------------------------------------------------------- slices (Go)
\* append(s, x) over the backing array s.arr: the element goes to position
\* len+1 of the array.  Elements past a slice's length are never read by the
\* code, and whether append moves to a larger array changes only the identity
\* of the array, which no operation observes while the mutex is held.
AppendSlice(ra, s, x) ==
    IF s.len < Len(ra[s.arr])
    THEN [ra EXCEPT ![s.arr][s.len + 1] = x]
    ELSE [ra EXCEPT ![s.arr] = Append(@, x)]

\* append(s[:i], s[i+1:]...) in place: the elements after position i move one
\* place down inside the same array; position len keeps its old element.
RemoveAt(q, i, len) ==
    [k \in 1..Len(q) |-> IF k >= i /\ k < len THEN q[k + 1] ELSE q[k]]

\* The delete on a sequence held by value (the Routes of a Route object,
\* whose only slice header is the object's own field).
DropAt(q, i) == SubSeq(q, 1, i - 1) \o SubSeq(q, i + 1, Len(q))

\* The position at which a range loop with a break stops: the first of the
\* positions that match, 0 when none does.
LastIndex(hits) ==
    IF hits = {} THEN 0 ELSE CHOOSE i \in hits : \A j \in hits : i >= j
FirstIndex(hits) ==
    IF hits = {} THEN 0 ELSE CHOOSE i \in hits : \A j \in hits : i <= j

\* ----------------------------------------------------------- InitConfig
\* A fresh Config: a new root Route naming "default-receiver" and a new
\* one-element receiver array, both at heap cell id.
InitConfigKept(id, ro, ra) ==
    IF config.set
    THEN Res(NoError,
             [set |-> TRUE, Route |-> id,
              Receivers |-> [arr |-> id, len |-> config.Receivers.len],
              original |-> EmptyView],
             [ro EXCEPT ![id] = ro[config.Route]],
             [ra EXCEPT ![id] = ReceiversOf(config, ra)])
    ELSE Res(NoError,
             [set |-> TRUE, Route |-> id, Receivers |-> [arr |-> id, len |-> 1],
              original |-> EmptyView],
             [ro EXCEPT ![id] = [Receiver |-> DefaultReceiver, Continue |-> FALSE,
                                 Routes |-> <<>>]],
             [ra EXCEPT ![id] = <<Rcv(DefaultReceiver, "none")>>])

InitConfig(id, ro, ra) ==
    Res(NoError,
        [set |-> TRUE, Route |-> id, Receivers |-> [arr |-> id, len |-> 1],
         original |-> EmptyView],
        [ro EXCEPT ![id] = [Receiver |-> DefaultReceiver, Continue |-> FALSE,
                            Routes |-> <<>>]],
        [ra EXCEPT ![id] = <<Rcv(DefaultReceiver, "none")>>])

\* ------------------------------------------------------- Config.AddRoute
ConfigAddRouteAsPassed(c, ro, ra, r, rcv) ==
    IF rcv.nil \/ r.nil
    THEN Res("adding a route requires both route and receiver", c, ro, ra)
    ELSE IF r.Receiver = "" \/ rcv.Name = ""
    THEN Res("receiver is mandatory in route and receiver", c, ro, ra)
    ELSE IF \E i \in 1..c.Receivers.len :
               \/ ra[c.Receivers.arr][i].Name = rcv.Name
               \/ ra[c.Receivers.arr][i].Name = r.Receiver
    THEN Res("the channel name has to be unique", c, ro, ra)
    ELSE Res(NoError,
             [c EXCEPT !.Receivers.len = @ + 1],
             [ro EXCEPT ![c.Route].Routes = Append(@, r)],
             AppendSlice(ra, c.Receivers, rcv))

ConfigAddRouteUnchecked(c, ro, ra, r, rcv) ==
    IF rcv.nil \/ r.nil
    THEN Res("adding a route requires both route and receiver", c, ro, ra)
    ELSE IF r.Receiver = "" \/ rcv.Name = ""
    THEN Res("receiver is mandatory in route and receiver", c, ro, ra)
    ELSE Res(NoError,
             [c EXCEPT !.Receivers.len = @ + 1],
             [ro EXCEPT ![c.Route].Routes = Append(@, [r EXCEPT !.Continue = TRUE])],
             AppendSlice(ra, c.Receivers, rcv))

ConfigAddRoute(c, ro, ra, r, rcv) ==
    IF rcv.nil \/ r.nil
    THEN Res("adding a route requires both route and receiver", c, ro, ra)
    ELSE IF r.Receiver = "" \/ rcv.Name = ""
    THEN Res("receiver is mandatory in route and receiver", c, ro, ra)
    ELSE IF \E i \in 1..c.Receivers.len :
               \/ ra[c.Receivers.arr][i].Name = rcv.Name
               \/ ra[c.Receivers.arr][i].Name = r.Receiver
    THEN Res("the channel name has to be unique", c, ro, ra)
    ELSE Res(NoError,
             [c EXCEPT !.Receivers.len = @ + 1],
             [ro EXCEPT ![c.Route].Routes = Append(@, [r EXCEPT !.Continue = TRUE])],
             AppendSlice(ra, c.Receivers, rcv))

\* ------------------------------------------------------ Config.EditRoute
ConfigEditRouteNoBreak(c, ro, ra, r, rcv) ==
    IF rcv.nil \/ r.nil
    THEN Res("adding a route requires both route and receiver", c, ro, ra)
    ELSE IF r.Receiver = "" \/ rcv.Name = ""
    THEN Res("receiver is mandatory in route and receiver", c, ro, ra)
    ELSE LET arr == ra[c.Receivers.arr]
             routes == ro[c.Route].Routes
         IN  Res(NoError, c,
                 [ro EXCEPT ![c.Route].Routes =
                     [k \in 1..Len(routes) |->
                         IF routes[k].Receiver = r.Receiver THEN r ELSE routes[k]]],
                 [ra EXCEPT ![c.Receivers.arr] =
                     [k \in 1..Len(arr) |->
                         IF k <= c.Receivers.len /\ arr[k].Name = rcv.Name
                         THEN rcv ELSE arr[k]]])

ConfigEditRoute(c, ro, ra, r, rcv) ==
    IF rcv.nil \/ r.nil
    THEN Res("adding a route requires both route and receiver", c, ro, ra)
    ELSE IF r.Receiver = "" \/ rcv.Name = ""
    THEN Res("receiver is mandatory in route and receiver", c, ro, ra)
    ELSE LET arr == ra[c.Receivers.arr]
             routes == ro[c.Route].Routes
             at == FirstIndex({i \in 1..Len(routes) : routes[i].Receiver = r.Receiver})
         IN  Res(NoError, c,
                 IF at = 0 THEN ro ELSE [ro EXCEPT ![c.Route].Routes[at] = r],
                 [ra EXCEPT ![c.Receivers.arr] =
                     [k \in 1..Len(arr) |->
                         IF k <= c.Receivers.len /\ arr[k].Name = rcv.Name
                         THEN rcv ELSE arr[k]]])

\* ---------------------------------------------------- Config.DeleteRoute
ConfigDeleteRoute(c, ro, ra, name) ==
    IF name = ""
    THEN Res("delete receiver requires the receiver name", c, ro, ra)
    ELSE LET arr == ra[c.Receivers.arr]
             routes == ro[c.Route].Routes
             rt == FirstIndex({i \in 1..Len(routes) : routes[i].Receiver = name})
             rc == FirstIndex({i \in 1..c.Receivers.len : arr[i].Name = name})
         IN  Res(NoError,
                 IF rc = 0 THEN c ELSE [c EXCEPT !.Receivers.len = @ - 1],
                 IF rt = 0 THEN ro ELSE [ro EXCEPT ![c.Route].Routes = DropAt(@, rt)],
                 IF rc = 0 THEN ra
                 ELSE [ra EXCEPT ![c.Receivers.arr] = RemoveAt(@, rc, c.Receivers.len)])

\* -------------------------------------------------------- Config.Validate
\* The loop over c.Receivers: the first receiver, in order, whose name an
\* earlier receiver has or whose integration settings are rejected.
RECURSIVE ReceiversError(_, _)
ReceiversError(rs, i) ==
    IF i > Len(rs) THEN NoError
    ELSE IF \E j \in 1..(i - 1) : rs[j].Name = rs[i].Name
    THEN "notification config name is not unique"
    ELSE IF rs[i].Slack = "nourl"
    THEN "no global Slack API URL set either inline or in a file"
    ELSE ReceiversError(rs, i + 1)

\* The routes under a route.  A route that AddRoute or EditRoute of the
\* Coordinator was given has none, and its record has no Routes field.
SubRoutes(r) == IF "Routes" \in DOMAIN r THEN r.Routes ELSE <<>>

\* checkReceiver on a route: the routes under it first, in order, then the
\* route itself, which passes when it names no receiver.
checkReceiverOfRoot(r, names) ==
    IF r.Receiver = "" THEN NoError
    ELSE IF r.Receiver \notin names THEN "undefined receiver used in route"
    ELSE NoError
RECURSIVE checkReceiver(_, _)
checkReceiver(r, names) ==
    IF \E i \in 1..Len(SubRoutes(r)) : checkReceiver(SubRoutes(r)[i], names) # NoError
    THEN "undefined receiver used in route"
    ELSE IF r.Receiver = "" THEN NoError
    ELSE IF r.Receiver \notin names THEN "undefined receiver used in route"
    ELSE NoError

Validate(c, ro, ra) ==
    LET root == ro[c.Route]
        rs == ReceiversOf(c, ra)
    IN  IF root.Continue THEN "cannot have continue in root route"
        ELSE IF ReceiversError(rs, 1) # NoError THEN ReceiversError(rs, 1)
        ELSE IF root.Receiver = "" THEN "root route must specify a default receiver"
        ELSE checkReceiver(root, {rs[i].Name : i \in 1..Len(rs)})

ValidateErrors ==
    {"cannot have continue in root route",
     "notification config name is not unique",
     "no global Slack API URL set either inline or in a file",
     "root route must specify a default receiver",
     "undefined receiver used in route"}

\* ------------------------------------- the query-service ConfigLoader
\* prepare: every channel is decoded and added, in order; a channel that
\* fails is logged and skipped, and the last error is what prepare returns.
RECURSIVE prepareStoppingAtError(_, _, _, _)
prepareStoppingAtError(res, channels, i, channelErr) ==
    IF i > Len(channels) THEN [res EXCEPT !.err = channelErr]
    ELSE IF ~channels[i].ok
    THEN [res EXCEPT !.err = "failed to marshal receiver from query service"]
    ELSE LET added == ConfigAddRoute(res.c, res.ro, res.ra,
                                     Rt(channels[i].Name, FALSE),
                                     Rcv(channels[i].Name, channels[i].Slack))
         IN  IF added.err # NoError
             THEN [res EXCEPT !.err = "failed to add route"]
             ELSE prepareStoppingAtError(added, channels, i + 1, channelErr)
RECURSIVE prepare(_, _, _, _)
prepare(res, channels, i, channelErr) ==
    IF i > Len(channels) THEN [res EXCEPT !.err = channelErr]
    ELSE IF ~channels[i].ok
    THEN prepare(res, channels, i + 1, "failed to marshal receiver from query service")
    ELSE LET added == ConfigAddRoute(res.c, res.ro, res.ra,
                                     Rt(channels[i].Name, FALSE),
                                     Rcv(channels[i].Name, channels[i].Slack))
         IN  IF added.err # NoError
             THEN prepare(res, channels, i + 1, "failed to add route")
             ELSE prepare(added, channels, i + 1, channelErr)

\* configLoader.Load: getChannels, prepare, then Validate.
LoaderLoad(init, fetched, channels) ==
    IF ~fetched
    THEN [init EXCEPT !.err = "received an error from query service while fetching config"]
    ELSE LET prepared == prepare(init, channels, 1, NoError)
         IN  IF prepared.err # NoError THEN prepared
             ELSE [prepared EXCEPT !.err = Validate(prepared.c, prepared.ro, prepared.ra)]

\* ------------------------------------------------------------ the heap
\* The smallest heap cell that neither the live Config nor a caller's conf
\* points to.
FreeId ==
    CHOOSE id \in HeapIds :
        LET free(i) == /\ ~(config.set /\ config.Route = i)
                       /\ \A q \in Procs : ~(conf[q].set /\ conf[q].Route = i)
        IN  free(id) /\ \A j \in HeapIds : free(j) => id <= j

\* What is left once caller p has dropped its conf: a cell nothing points to
\* is garbage, and so is the tail of an array past every slice over it.  The
\* code compares no pointers, so when the live Config is the only holder its
\* cell is renamed to 1.
Collected(p, cfg, ro, ra) ==
    LET others == {q \in Procs \ {p} : conf[q].set}
        holders(id) ==
            (IF cfg.set /\ cfg.Route = id THEN {cfg} ELSE {}) \cup
            {conf[q] : q \in {x \in others : conf[x].Route = id}}
        longest(id) ==
            CHOOSE n \in {h.Receivers.len : h \in holders(id)} :
                \A h \in holders(id) : h.Receivers.len <= n
    IN  IF others = {} /\ cfg.set
        THEN [cfg |-> [cfg EXCEPT !.Route = 1, !.Receivers.arr = 1],
              ro |-> [id \in HeapIds |-> IF id = 1 THEN ro[cfg.Route] ELSE EmptyRoot],
              ra |-> [id \in HeapIds |->
                         IF id = 1
                         THEN SubSeq(ra[cfg.Receivers.arr], 1, cfg.Receivers.len)
                         ELSE <<>>]]
        ELSE [cfg |-> cfg,
              ro |-> [id \in HeapIds |-> IF holders(id) = {} THEN EmptyRoot ELSE ro[id]],
              ra |-> [id \in HeapIds |->
                         IF holders(id) = {} THEN <<>>
                         ELSE SubSeq(ra[id], 1, longest(id))]]

\* md5HashAsMetricValue: 48 bits of the MD5 sum of the data.  MD5 is taken as
\* free of collisions on the data the model produces: the sum is the value
\* that names the data it was computed from and nothing else.
md5HashAsMetricValue(data) == [sum48 |-> data]

\* The value of a gauge that has not been set: 0, which is the sum of no data
\* the model produces.
GaugeUnset == [unset |-> TRUE]

\* ------------------------------------------------------------------- Init
\* A call in progress: the operation, the name it is about (the receiver's
\* name of AddRoute and EditRoute, the name of DeleteRoute), the callback
\* Subscribe registers, what the loader returned to Reload and, when it
\* returned nil, the channels it had fetched, and the subscribers the range
\* loop of an OnUpdate called from outside runs over.
NoCall ==
    [op |-> "none", name |-> "", s |-> 0, load |-> NoError, channels |-> <<>>,
     subs |-> <<>>]
CallOf(op, name) == [NoCall EXCEPT !.op = op, !.name = name]
NoAdd == [set |-> FALSE, name |-> "", pre |-> EmptyView]
NoArgs == [r |-> NilRoute, rcv |-> NilReceiver, name |-> ""]
NoRun == [n |-> 0]

\* NewCoordinator: no Config yet, no subscribers, the gauges at their zero.
Init ==
    /\ mutex = FALSE
    /\ config = NilConfig
    /\ subscribers = <<>>
    /\ configSuccessMetric = 0
    /\ configHashMetric = GaugeUnset
    /\ configFile = NoFile
    /\ configOnDisk = NilConfig
    /\ replay = NoReplay
    /\ routeObj = [id \in HeapIds |-> EmptyRoot]
    /\ recvArr = [id \in HeapIds |-> <<>>]
    /\ pc = [p \in Procs |-> "idle"]
    /\ call = [p \in Procs |-> NoCall]
    /\ conf = [p \in Procs |-> NilConfig]
    /\ err = [p \in Procs |-> NoError]
    /\ idx = [p \in Procs |-> 0]
    /\ pre = [p \in Procs |-> EmptyView]
    /\ calls = [p \in Procs |-> <<>>]
    /\ registered = <<>>
    /\ lastAdd = NoAdd
    /\ args = NoArgs
    /\ run = NoRun

\* ---------------------------------------------------------------- actions
\* A call runs in steps, each under the mutex: the body up to c.set, c.set,
\* one step per subscriber of OnUpdate, and the deferred Unlock.

\* c.mutex.Lock() at the head of every operation: the caller blocks until the
\* mutex is free.
MutexIgnored == TRUE
MutexFree == ~mutex

LockNotHeld(p, c) ==
    /\ pc[p] = "idle"
    /\ MutexFree
    /\ mutex' = FALSE
    /\ call' = [call EXCEPT ![p] = c]
    /\ pre' = [pre EXCEPT ![p] = LiveView]
    /\ UNCHANGED <<config, idx, calls, registered, lastAdd, args, run>>

Lock(p, c) ==
    /\ pc[p] = "idle"
    /\ MutexFree
    /\ mutex' = TRUE
    /\ call' = [call EXCEPT ![p] = c]
    /\ pre' = [pre EXCEPT ![p] = LiveView]
    /\ UNCHANGED <<config, idx, calls, registered, lastAdd, args, run>>

\* The body of a call leaves with error e: the deferred Unlock is what is left.
Leave(p, e) ==
    /\ pc' = [pc EXCEPT ![p] = "ret"]
    /\ err' = [err EXCEPT ![p] = e]

\* Subscribe: c.subscribers = append(c.subscribers, ss...)
SubscribedAlone(subs, s) == <<s>>
Subscribed(subs, s) == Append(subs, s)

\* The callbacks are distinct functions: the k-th one registered is called k.
NextCallback == Len(registered) + 1

Subscribe(p) ==
    /\ Len(subscribers) < MaxSubs
    /\ Lock(p, [CallOf("Subscribe", "") EXCEPT !.s = NextCallback])
    /\ subscribers' = Subscribed(subscribers, NextCallback)
    /\ Leave(p, NoError)
    /\ UNCHANGED <<configSuccessMetric, configHashMetric, configFile, configOnDisk, replay, routeObj, recvArr, conf>>

\* Reload when the loader returned error e: the success metric is set to 0
\* and e is returned; the fresh Config is dropped.
LoadFailedSilently(p, e) ==
    /\ Leave(p, e)
    /\ UNCHANGED <<configSuccessMetric, configHashMetric, configFile, configOnDisk, replay, conf, routeObj, recvArr>>

LoadFailed(p, e) ==
    /\ configSuccessMetric' = 0
    /\ UNCHANGED <<configHashMetric, configFile, configOnDisk, replay>>
    /\ Leave(p, e)
    /\ UNCHANGED <<conf, routeObj, recvArr>>

\* Reload up to c.set: InitConfig, then the loader fills the fresh Config.
Reload(p, fetched, channels) ==
    LET fresh == InitConfig(FreeId, routeObj, recvArr)
        loaded == LoaderLoad(fresh, fetched, channels)
    IN  /\ Lock(p, [CallOf("Reload", "") EXCEPT
                        !.load = loaded.err,
                        !.channels = IF loaded.err = NoError THEN channels ELSE <<>>])
        /\ UNCHANGED subscribers
        /\ IF loaded.err # NoError
           THEN LoadFailed(p, loaded.err)
           ELSE /\ conf' = [conf EXCEPT ![p] = loaded.c]
                /\ routeObj' = loaded.ro
                /\ recvArr' = loaded.ra
                /\ pc' = [pc EXCEPT ![p] = "install"]
                /\ UNCHANGED <<configSuccessMetric, configHashMetric, configFile, configOnDisk, replay, err>>

\* conf := *c.config: the Config value is copied, what it points to is not.
ShallowCopy(c) == c

\* AddRoute, EditRoute, DeleteRoute up to c.set: the nil check, the copy, the
\* method of Config on the copy (res), which writes through the pointers the
\* copy shares with the live Config, and Validate on the copy.
Mutated(p, res) ==
    /\ UNCHANGED <<configSuccessMetric, configHashMetric, configFile, configOnDisk>>
    /\ IF ~config.set
       THEN /\ Leave(p, "found an empty config in coordinator")
            /\ UNCHANGED <<conf, routeObj, recvArr>>
       ELSE /\ conf' = [conf EXCEPT ![p] = res.c]
            /\ routeObj' = res.ro
            /\ recvArr' = res.ra
            /\ IF res.err # NoError
               THEN Leave(p, res.err)
               ELSE LET e == Validate(res.c, res.ro, res.ra)
                    IN  IF e # NoError
                        THEN Leave(p, e)
                        ELSE /\ pc' = [pc EXCEPT ![p] = "install"]
                             /\ UNCHANGED err

Mutate(p, res) == Mutated(p, res) /\ UNCHANGED replay

AddRoute(p, r, rcv) ==
    /\ Lock(p, CallOf("AddRoute", rcv.Name))
    /\ UNCHANGED subscribers
    /\ Mutate(p, ConfigAddRoute(ShallowCopy(config), routeObj, recvArr, r, rcv))

EditRoute(p, r, rcv) ==
    /\ Lock(p, CallOf("EditRoute", rcv.Name))
    /\ UNCHANGED subscribers
    /\ Mutate(p, ConfigEditRoute(ShallowCopy(config), routeObj, recvArr, r, rcv))

DeleteRoute(p, name) ==
    /\ Lock(p, CallOf("DeleteRoute", name))
    /\ UNCHANGED subscribers
    /\ Mutate(p, ConfigDeleteRoute(ShallowCopy(config), routeObj, recvArr, name))

\* json.Marshal of a Config: the routes with their receiver and continue, the
\* receivers with their name and their Slack settings, where MarshalJSON of a
\* SecretURL writes "<secret>" in place of the URL.
JSONRoute(r) == [receiver |-> r.Receiver, continue |-> r.Continue]
JSONReceiver(rcv) ==
    [name |-> rcv.Name,
     slack_configs |-> IF rcv.Slack = "none" THEN <<>>
                       ELSE IF rcv.Slack = "url" THEN <<[api_url |-> "<secret>"]>>
                       ELSE <<[api_url |-> ""]>>]
Marshal(v) ==
    [route |-> [receiver |-> v.Route.Receiver,
                continue |-> v.Route.Continue,
                routes |-> [i \in 1..Len(v.Route.Routes) |->
                               JSONRoute(v.Route.Routes[i])]],
     receivers |-> [i \in 1..Len(v.Receivers) |-> JSONReceiver(v.Receivers[i])]]

\* c.set(conf): c.config = conf, then SetOriginal serializes what the Config
\* holds at this moment into its original field.
Installed(c, ro, ra) == [c EXCEPT !.original = Marshal(ViewOf(c, ro, ra))]

InstallDeferred(p) ==
    /\ pc[p] = "install"
    /\ conf' = [conf EXCEPT ![p] = Installed(conf[p], routeObj, recvArr)]
    /\ pc' = [pc EXCEPT ![p] = "notify"]
    /\ idx' = [idx EXCEPT ![p] = 1]
    /\ UNCHANGED <<mutex, config, subscribers, configSuccessMetric, configHashMetric, configFile, configOnDisk, replay, routeObj,
                   recvArr, call, err, pre, calls, registered, lastAdd, args, run>>

Install(p) ==
    /\ pc[p] = "install"
    /\ config' = Installed(conf[p], routeObj, recvArr)
    /\ conf' = [conf EXCEPT ![p] = Installed(conf[p], routeObj, recvArr)]
    /\ pc' = [pc EXCEPT ![p] = "notify"]
    /\ idx' = [idx EXCEPT ![p] = 1]
    /\ UNCHANGED <<mutex, subscribers, configSuccessMetric, configHashMetric, configFile, configOnDisk, replay, routeObj, recvArr,
                   call, err, pre, calls, registered, lastAdd, args, run>>

\* notifySubscribers: the subscriber called at position i of the loop.
SubscriberAtReversed(subs, i) == subs[Len(subs) + 1 - i]
SubscriberAt(subs, i) == subs[i]

SubscriberError == "subscriber failed to apply new config"

\* One turn of OnUpdate: the next subscriber is called with c.config; its error
\* ends the loop, sets the success metric to 0 and is returned.
Notify(p, ok) ==
    /\ pc[p] = "notify"
    /\ idx[p] <= Len(subscribers)
    /\ calls' = [calls EXCEPT ![p] =
                    Append(@, [s |-> SubscriberAt(subscribers, idx[p]),
                               cfg |-> config, ok |-> ok])]
    /\ IF ok
       THEN /\ idx' = [idx EXCEPT ![p] = @ + 1]
            /\ UNCHANGED <<configSuccessMetric, configHashMetric, configFile, configOnDisk, replay, pc, err>>
       ELSE /\ configSuccessMetric' = 0
            /\ UNCHANGED <<configHashMetric, configFile, configOnDisk, replay>>
            /\ Leave(p, SubscriberError)
            /\ UNCHANGED idx
    /\ UNCHANGED <<mutex, config, subscribers, routeObj, recvArr, call, conf, pre,
                   registered, lastAdd, args, run>>

\* OnUpdate after the last subscriber: the success metric is 1 and the hash
\* metric is the hash of c.config.original.
UpdatedHashKept(p) ==
    /\ pc[p] = "notify"
    /\ idx[p] > Len(subscribers)
    /\ configSuccessMetric' = 1
    /\ UNCHANGED <<configHashMetric, configFile, configOnDisk, replay>>
    /\ Leave(p, NoError)
    /\ UNCHANGED <<mutex, config, subscribers, routeObj, recvArr, call, conf, idx,
                   pre, calls, registered, lastAdd, args, run>>

Updated(p) ==
    /\ pc[p] = "notify"
    /\ idx[p] > Len(subscribers)
    /\ configSuccessMetric' = 1
    /\ configHashMetric' = md5HashAsMetricValue(config.original)
    /\ UNCHANGED <<configFile, configOnDisk, replay>>
    /\ Leave(p, NoError)
    /\ UNCHANGED <<mutex, config, subscribers, routeObj, recvArr, call, conf, idx,
                   pre, calls, registered, lastAdd, args, run>>

\* The deferred c.mutex.Unlock() and the return of err[p] to the caller.
ReturnLocked(p) ==
    /\ pc[p] = "ret"
    /\ mutex' = TRUE
    /\ pc' = [pc EXCEPT ![p] = "idle"]
    /\ registered' = IF call[p].op = "Subscribe"
                     THEN Append(registered, call[p].s) ELSE registered
    /\ lastAdd' = IF call[p].op = "AddRoute" /\ err[p] = NoError
                  THEN [set |-> TRUE, name |-> call[p].name, pre |-> pre[p]]
                  ELSE NoAdd
    /\ LET heap == Collected(p, config, routeObj, recvArr)
       IN  config' = heap.cfg /\ routeObj' = heap.ro /\ recvArr' = heap.ra
    /\ call' = [call EXCEPT ![p] = NoCall]
    /\ conf' = [conf EXCEPT ![p] = NilConfig]
    /\ err' = [err EXCEPT ![p] = NoError]
    /\ idx' = [idx EXCEPT ![p] = 0]
    /\ pre' = [pre EXCEPT ![p] = EmptyView]
    /\ calls' = [calls EXCEPT ![p] = <<>>]
    /\ UNCHANGED <<subscribers, configSuccessMetric, configHashMetric, configFile, configOnDisk, replay, args, run>>

Return(p) ==
    /\ pc[p] = "ret"
    /\ mutex' = FALSE
    /\ pc' = [pc EXCEPT ![p] = "idle"]
    /\ registered' = IF call[p].op = "Subscribe"
                     THEN Append(registered, call[p].s) ELSE registered
    /\ lastAdd' = IF call[p].op = "AddRoute" /\ err[p] = NoError
                  THEN [set |-> TRUE, name |-> call[p].name, pre |-> pre[p]]
                  ELSE NoAdd
    /\ LET heap == Collected(p, config, routeObj, recvArr)
       IN  config' = heap.cfg /\ routeObj' = heap.ro /\ recvArr' = heap.ra
    /\ call' = [call EXCEPT ![p] = NoCall]
    /\ conf' = [conf EXCEPT ![p] = NilConfig]
    /\ err' = [err EXCEPT ![p] = NoError]
    /\ idx' = [idx EXCEPT ![p] = 0]
    /\ pre' = [pre EXCEPT ![p] = EmptyView]
    /\ calls' = [calls EXCEPT ![p] = <<>>]
    /\ UNCHANGED <<subscribers, configSuccessMetric, configHashMetric, configFile, configOnDisk, replay, args, run>>

Next ==
    \E p \in Procs :
        \/ Subscribe(p)
        \/ \E answer \in Answers : Reload(p, answer.fetched, answer.channels)
        \/ /\ Len(LiveView.Route.Routes) < MaxRoutes
           /\ \E r \in RouteArgs, rcv \in ReceiverArgs : AddRoute(p, r, rcv)
        \/ \E r \in RouteArgs, rcv \in ReceiverArgs : EditRoute(p, r, rcv)
        \/ \E name \in NameArgs : DeleteRoute(p, name)
        \/ Install(p)
        \/ \E ok \in BOOLEAN : Notify(p, ok)
        \/ Updated(p)
        \/ Return(p)

Spec == Init /\ [][Next]_vars

\* A caller inside a call goes on: c.set, each subscriber, which returns, the
\* end of OnUpdate and the deferred Unlock are taken when they can be.  The
\* loader has returned when Reload is past its first step.
Fairness ==
    \A p \in Procs :
        /\ WF_vars(Install(p))
        /\ WF_vars(\E ok \in BOOLEAN : Notify(p, ok))
        /\ WF_vars(Updated(p))
        /\ WF_vars(Return(p))

\* The calls whose return is followed: each operation with arguments that
\* take it along each of its paths, the error returns included.
FairAnswers ==
    {[fetched |-> FALSE, channels |-> <<>>],
     [fetched |-> TRUE, channels |-> <<>>],
     [fetched |-> TRUE, channels |-> <<Channel(TRUE, "a", "nourl")>>]}
FairRouteArgs == {NilRoute, Rt("a", FALSE)}
FairReceiverArgs == {Rcv("a", "url"), Rcv("a", "nourl")}
FairNameArgs == {"a", ""}

NextFair ==
    \E p \in Procs :
        \/ Subscribe(p)
        \/ \E answer \in FairAnswers : Reload(p, answer.fetched, answer.channels)
        \/ /\ Len(LiveView.Route.Routes) < MaxRoutes
           /\ \E r \in FairRouteArgs, rcv \in FairReceiverArgs : AddRoute(p, r, rcv)
        \/ \E r \in FairRouteArgs, rcv \in FairReceiverArgs : EditRoute(p, r, rcv)
        \/ \E name \in FairNameArgs : DeleteRoute(p, name)
        \/ Install(p)
        \/ \E ok \in BOOLEAN : Notify(p, ok)
        \/ Updated(p)
        \/ Return(p)
SpecFair == Init /\ [][NextFair]_vars /\ Fairness

\* ------------------------------------------- N concurrent AddRoute calls
\* The Config a successful Reload installs when the query service answers
\* with one channel.
StartChannels == <<Channel(TRUE, "a", "url")>>
StartLoaded ==
    LoaderLoad(InitConfig(1, [id \in HeapIds |-> EmptyRoot], [id \in HeapIds |-> <<>>]),
               TRUE, StartChannels)
StartView == ViewOf(StartLoaded.c, StartLoaded.ro, StartLoaded.ra)

\* The name caller p adds: pairwise distinct, none in the starting Config.
AdderNames == <<"x1", "x2", "x3", "x4">>
AdderName(p) == AdderNames[p]

InitAdd ==
    /\ mutex = FALSE
    /\ config = Installed(StartLoaded.c, StartLoaded.ro, StartLoaded.ra)
    /\ \E n \in 0..MaxSubs : subscribers = [i \in 1..n |-> i]
    /\ registered = subscribers
    /\ configSuccessMetric = 1
    /\ configHashMetric = md5HashAsMetricValue(config.original)
    /\ configFile = NoFile
    /\ configOnDisk = NilConfig
    /\ replay = NoReplay
    /\ routeObj = StartLoaded.ro
    /\ recvArr = StartLoaded.ra
    /\ pc = [p \in Procs |-> "idle"]
    /\ call = [p \in Procs |-> NoCall]
    /\ conf = [p \in Procs |-> NilConfig]
    /\ err = [p \in Procs |-> NoError]
    /\ idx = [p \in Procs |-> 0]
    /\ pre = [p \in Procs |-> EmptyView]
    /\ calls = [p \in Procs |-> <<>>]
    /\ lastAdd = NoAdd
    /\ args = NoArgs
    /\ run = NoRun

\* The deferred Unlock and the return of a caller that makes one call only:
\* what it returned stays in err[p].
Finish(p) ==
    /\ pc[p] = "ret"
    /\ mutex' = FALSE
    /\ pc' = [pc EXCEPT ![p] = "done"]
    /\ UNCHANGED <<config, subscribers, configSuccessMetric, configHashMetric, configFile, configOnDisk, replay, routeObj, recvArr,
                   call, conf, err, idx, pre, calls, registered, lastAdd, args, run>>

\* Every caller makes one AddRoute call, of a route naming its own receiver;
\* no subscriber fails.
NextAdd ==
    \E p \in Procs :
        \/ \E c \in BOOLEAN, s \in {"none", "url"} :
               AddRoute(p, Rt(AdderName(p), c), Rcv(AdderName(p), s))
        \/ Install(p)
        \/ Notify(p, TRUE)
        \/ Updated(p)
        \/ Finish(p)

SpecAdd == InitAdd /\ [][NextAdd]_vars

\* ----------------------------------------- OnUpdate called from outside
\* OnUpdate is exported and takes no lock: Reload and the mutations call it
\* with the mutex held, a client that calls it holds nothing.  The range loop
\* of notifySubscribers reads c.subscribers once, c.config at every turn.
\* Without a live Config the call ends in a nil dereference at
\* c.config.original: the call is modelled once a Config is live.
OnUpdate(p) ==
    /\ pc[p] = "idle"
    /\ config.set
    /\ pc' = [pc EXCEPT ![p] = "direct"]
    /\ call' = [call EXCEPT ![p] = [CallOf("OnUpdate", "") EXCEPT !.subs = subscribers]]
    /\ idx' = [idx EXCEPT ![p] = 1]
    /\ UNCHANGED <<mutex, config, subscribers, configSuccessMetric, configHashMetric, configFile, configOnDisk, replay, routeObj,
                   recvArr, conf, err, pre, calls, registered, lastAdd, args, run>>

OnUpdateNotify(p, ok) ==
    /\ pc[p] = "direct"
    /\ idx[p] <= Len(call[p].subs)
    /\ IF ok
       THEN /\ calls' = [calls EXCEPT ![p] =
                            Append(@, [s |-> SubscriberAt(call[p].subs, idx[p]),
                                       cfg |-> config, ok |-> ok])]
            /\ idx' = [idx EXCEPT ![p] = @ + 1]
            /\ UNCHANGED <<configSuccessMetric, configHashMetric, configFile, configOnDisk, replay, pc, call>>
       ELSE /\ configSuccessMetric' = 0
            /\ UNCHANGED <<configHashMetric, configFile, configOnDisk, replay>>
            /\ pc' = [pc EXCEPT ![p] = "idle"]
            /\ call' = [call EXCEPT ![p] = NoCall]
            /\ idx' = [idx EXCEPT ![p] = 0]
            /\ calls' = [calls EXCEPT ![p] = <<>>]
    /\ UNCHANGED <<mutex, config, subscribers, routeObj, recvArr, conf, err, pre,
                   registered, lastAdd, args, run>>

OnUpdateDone(p) ==
    /\ pc[p] = "direct"
    /\ idx[p] > Len(call[p].subs)
    /\ configSuccessMetric' = 1
    /\ configHashMetric' = md5HashAsMetricValue(config.original)
    /\ UNCHANGED <<configFile, configOnDisk, replay>>
    /\ pc' = [pc EXCEPT ![p] = "idle"]
    /\ call' = [call EXCEPT ![p] = NoCall]
    /\ idx' = [idx EXCEPT ![p] = 0]
    /\ calls' = [calls EXCEPT ![p] = <<>>]
    /\ UNCHANGED <<mutex, config, subscribers, routeObj, recvArr, conf, err, pre,
                   registered, lastAdd, args, run>>

\* Callers that subscribe, reload and add routes, and callers of OnUpdate.
NextOnUpdate ==
    \E p \in Procs :
        \/ Subscribe(p)
        \/ \E answer \in Answers : Reload(p, answer.fetched, answer.channels)
        \/ /\ Len(LiveView.Route.Routes) < MaxRoutes
           /\ \E r \in RouteArgs, rcv \in ReceiverArgs : AddRoute(p, r, rcv)
        \/ Install(p)
        \/ \E ok \in BOOLEAN : Notify(p, ok)
        \/ Updated(p)
        \/ Return(p)
        \/ OnUpdate(p)
        \/ \E ok \in BOOLEAN : OnUpdateNotify(p, ok)
        \/ OnUpdateDone(p)

SpecOnUpdate == Init /\ [][NextOnUpdate]_vars

\* --------------------------------------- the methods of Config, on a Config
\* A Config value under its own methods, as the loader's prepare and the
\* Coordinator apply them: it starts as InitConfig builds it, and AddRoute,
\* EditRoute and DeleteRoute are called on it with any arguments.
CfgNames == {"a", "b"}
CfgRouteArgs == {NilRoute} \cup {Rt(n, c) : n \in CfgNames \cup {""}, c \in BOOLEAN}
CfgReceiverArgs ==
    {NilReceiver} \cup {Rcv(n, s) : n \in CfgNames \cup {""}, s \in {"none", "url"}}
CfgNameArgs == CfgNames \cup {"", DefaultReceiver}

CfgFresh == InitConfig(1, [id \in HeapIds |-> EmptyRoot], [id \in HeapIds |-> <<>>])

InitCfg ==
    /\ mutex = FALSE
    /\ config = CfgFresh.c
    /\ subscribers = <<>>
    /\ configSuccessMetric = 0
    /\ configHashMetric = GaugeUnset
    /\ configFile = NoFile
    /\ configOnDisk = NilConfig
    /\ replay = NoReplay
    /\ routeObj = CfgFresh.ro
    /\ recvArr = CfgFresh.ra
    /\ pc = [p \in Procs |-> "idle"]
    /\ call = [p \in Procs |-> NoCall]
    /\ conf = [p \in Procs |-> NilConfig]
    /\ err = [p \in Procs |-> NoError]
    /\ idx = [p \in Procs |-> 0]
    /\ pre = [p \in Procs |-> EmptyView]
    /\ calls = [p \in Procs |-> <<>>]
    /\ registered = <<>>
    /\ lastAdd = NoAdd
    /\ args = NoArgs
    /\ run = NoRun

\* A method of Config has run on the Config and returned res: what the Config
\* held before, the arguments and the error are kept.
CfgReturned(op, a, res) ==
    /\ LET heap == Collected(1, res.c, res.ro, res.ra)
       IN  config' = heap.cfg /\ routeObj' = heap.ro /\ recvArr' = heap.ra
    /\ pre' = [pre EXCEPT ![1] = LiveView]
    /\ err' = [err EXCEPT ![1] = res.err]
    /\ call' = [call EXCEPT ![1] = CallOf(op, a.name)]
    /\ args' = a
    /\ UNCHANGED <<mutex, subscribers, configSuccessMetric, configHashMetric, configFile, configOnDisk, replay, pc, conf, idx, calls,
                   registered, lastAdd, run>>

CfgAddRoute(r, rcv) ==
    /\ Len(LiveView.Route.Routes) < MaxRoutes
    /\ CfgReturned("AddRoute", [r |-> r, rcv |-> rcv, name |-> ""],
                   ConfigAddRoute(config, routeObj, recvArr, r, rcv))

CfgEditRoute(r, rcv) ==
    CfgReturned("EditRoute", [r |-> r, rcv |-> rcv, name |-> ""],
                ConfigEditRoute(config, routeObj, recvArr, r, rcv))

CfgDeleteRoute(name) ==
    CfgReturned("DeleteRoute", [r |-> NilRoute, rcv |-> NilReceiver, name |-> name],
                ConfigDeleteRoute(config, routeObj, recvArr, name))

NextCfg ==
    \/ \E r \in CfgRouteArgs, rcv \in CfgReceiverArgs : CfgAddRoute(r, rcv)
    \/ \E r \in CfgRouteArgs, rcv \in CfgReceiverArgs : CfgEditRoute(r, rcv)
    \/ \E name \in CfgNameArgs : CfgDeleteRoute(name)

SpecCfg == InitCfg /\ [][NextCfg]_vars

\* ------------------------------------------- Config.Validate, on a Config
\* Validate with every field of the Config it reads or writes.  A Config here
\* is a record: Global ("nil" or "default": DefaultGlobalConfig, which has no
\* Slack API URL), Route (the root; nil |-> TRUE for a nil pointer), Receivers
\* and MuteTimeIntervals (the names of the time intervals).  A receiver has
\* its Name, its Slack integration ("none", "url", "nourl") and the HTTPConfig
\* of that integration ("none" without integration, "nil", "own", "global").
MaxCalls == 2      \* Validate is called at most this often on one Config

LabelValid(l) == l \in {"alertname", "job"}

ValResult(e, c) == [err |-> e, c |-> c]

\* config.go:391, the check on the root's continue flag.
ContinueInRootIgnored(root) == FALSE
ContinueInRoot(root) == root.Continue

\* config.go:589, the check on the root's matchers.
MatchersInRoot(root) == root.Match # {} \/ root.MatchRE # {}

\* The receivers loop of Validate from receiver i on: each receiver's name is
\* checked against the names before it, then its Slack config inherits
\* Global's HTTPConfig and needs an API URL.
ValidateReceiversUnchecked(rs, i) == ValResult(NoError, rs)
RECURSIVE ValidateReceivers(_, _)
ValidateReceivers(rs, i) ==
    IF i > Len(rs) THEN ValResult(NoError, rs)
    ELSE IF \E j \in 1..(i - 1) : rs[j].Name = rs[i].Name
    THEN ValResult("notification config name is not unique", rs)
    ELSE LET inherited ==
                 IF rs[i].HTTP = "nil" THEN [rs EXCEPT ![i].HTTP = "global"] ELSE rs
         IN  IF rs[i].Slack = "nourl"
             THEN ValResult("no global Slack API URL set either inline or in a file",
                            inherited)
             ELSE ValidateReceivers(inherited, i + 1)

\* Route.Validate: one label of group_by joins GroupBy.
GroupByAppendedAlways(groupBy, l) == Append(groupBy, l)
GroupByAppended(groupBy, l) ==
    IF \E k \in 1..Len(groupBy) : groupBy[k] = l THEN groupBy ELSE Append(groupBy, l)

\* Route.Validate: the loop over GroupByStr from position i on.
RECURSIVE GroupByLoop(_, _)
GroupByLoop(r, i) ==
    IF i > Len(r.GroupByStr) THEN ValResult(NoError, r)
    ELSE IF r.GroupByStr[i] = "..."
    THEN GroupByLoop([r EXCEPT !.GroupByAll = TRUE], i + 1)
    ELSE IF ~LabelValid(r.GroupByStr[i])
    THEN ValResult("invalid label name in group_by list", r)
    ELSE GroupByLoop([r EXCEPT !.GroupBy = GroupByAppended(@, r.GroupByStr[i])], i + 1)

RouteValidate(r) ==
    IF \E k \in r.Match : ~LabelValid(k) THEN ValResult("invalid label name", r)
    ELSE LET g == GroupByLoop(r, 1)
         IN  IF g.err # NoError THEN g
             ELSE IF Len(g.c.GroupBy) > 0 /\ g.c.GroupByAll
             THEN ValResult("cannot have wildcard group_by and other labels", g.c)
             ELSE IF g.c.GroupInterval = "0s"
             THEN ValResult("group_interval cannot be zero", g.c)
             ELSE IF g.c.RepeatInterval = "0s"
             THEN ValResult("repeat_interval cannot be zero", g.c)
             ELSE g

\* checkTimeInterval on a route: the routes under it first, in order, then
\* the route itself.
RECURSIVE checkTimeInterval(_, _)
checkTimeInterval(r, tiNames) ==
    IF \E i \in 1..Len(SubRoutes(r)) :
           checkTimeInterval(SubRoutes(r)[i], tiNames) # NoError
    THEN "undefined time interval used in route"
    ELSE IF \E k \in 1..Len(r.MuteTimeIntervals) : r.MuteTimeIntervals[k] \notin tiNames
    THEN "undefined time interval used in route"
    ELSE NoError

ConfigValidate(c) ==
    IF c.Route.nil THEN ValResult("no route provided in config", c)
    ELSE IF ContinueInRoot(c.Route)
    THEN ValResult("cannot have continue in root route", c)
    ELSE
    LET g == [c EXCEPT !.Global = "default"]
        rcvs == ValidateReceivers(g.Receivers, 1)
        withRcvs == [g EXCEPT !.Receivers = rcvs.c]
        root == RouteValidate(g.Route)
        withRoot == [withRcvs EXCEPT !.Route = root.c]
        names == {rcvs.c[i].Name : i \in 1..Len(rcvs.c)}
        mt == g.MuteTimeIntervals
    IN  IF rcvs.err # NoError THEN ValResult(rcvs.err, withRcvs)
        ELSE IF g.Route.Receiver = ""
        THEN ValResult("root route must specify a default receiver", withRcvs)
        ELSE IF MatchersInRoot(g.Route)
        THEN ValResult("root route must not have any matchers", withRcvs)
        ELSE IF Len(g.Route.MuteTimeIntervals) > 0
        THEN ValResult("root route must not have any mute time intervals", withRcvs)
        ELSE IF root.err # NoError THEN ValResult(root.err, withRoot)
        ELSE IF checkReceiver(withRoot.Route, names) # NoError
        THEN ValResult(checkReceiver(withRoot.Route, names), withRoot)
        ELSE IF \E i, j \in 1..Len(mt) : i < j /\ mt[i] = mt[j]
        THEN ValResult("mute time interval is not unique", withRoot)
        ELSE ValResult(checkTimeInterval(withRoot.Route, {mt[i] : i \in 1..Len(mt)}),
                       withRoot)

\* The Configs Validate is given.
ValReceiver(n, s, h) == [nil |-> FALSE, Name |-> n, Slack |-> s, HTTP |-> h]
ValChild(n, mute) ==
    [nil |-> FALSE, Receiver |-> n, Continue |-> FALSE, MuteTimeIntervals |-> mute,
     GroupInterval |-> "nil", RepeatInterval |-> "nil", Routes |-> <<>>]
ValNilRoot ==
    [nil |-> TRUE, Receiver |-> "", Continue |-> FALSE, Match |-> {}, MatchRE |-> {},
     Matchers |-> <<>>, MuteTimeIntervals |-> <<>>, GroupByStr |-> <<>>,
     GroupBy |-> <<>>, GroupByAll |-> FALSE, GroupInterval |-> "nil",
     RepeatInterval |-> "nil", Routes |-> <<>>]
ValRoots ==
    {ValNilRoot} \cup
    [nil : {FALSE},
     Receiver : {"", DefaultReceiver},
     Continue : BOOLEAN,
     Match : {{}, {"job"}},
     MatchRE : {{}, {"job"}},
     Matchers : {<<>>, <<"job=x">>},
     MuteTimeIntervals : {<<>>, <<"night">>},
     GroupByStr : {<<"alertname">>, <<"alertname", "alertname">>, <<"...">>,
                   <<"job", "1bad">>},
     GroupBy : {<<>>, <<"alertname">>},
     GroupByAll : {FALSE},
     GroupInterval : {"nil", "0s", "5m"},
     RepeatInterval : {"nil", "0s"},
     Routes : {<<>>, <<ValChild("a", <<>>)>>, <<ValChild("a", <<"night">>)>>}]
ValReceiverLists ==
    {<<ValReceiver(DefaultReceiver, "none", "none")>>,
     <<ValReceiver(DefaultReceiver, "none", "none"), ValReceiver("a", "url", "nil")>>,
     <<ValReceiver(DefaultReceiver, "none", "none"), ValReceiver("a", "nourl", "nil")>>,
     <<ValReceiver(DefaultReceiver, "none", "none"),
       ValReceiver(DefaultReceiver, "url", "own")>>,
     <<ValReceiver("a", "url", "own")>>}
ValConfigs ==
    [Global : {"nil", "default"},
     Route : ValRoots,
     Receivers : ValReceiverLists,
     MuteTimeIntervals : {<<>>, <<"night">>, <<"night", "night">>}]

\* run, while Validate is applied: the Config given, the Config as it is now,
\* the Config as the call before the last left it, and the errors returned.
InitValidate ==
    /\ InitCfg!1 /\ InitCfg!2 /\ InitCfg!3 /\ InitCfg!4 /\ InitCfg!5 /\ InitCfg!6
    /\ InitCfg!7 /\ InitCfg!8 /\ InitCfg!9 /\ InitCfg!10 /\ InitCfg!11 /\ InitCfg!12
    /\ InitCfg!13 /\ InitCfg!14 /\ InitCfg!15 /\ InitCfg!16 /\ InitCfg!17
    /\ InitCfg!18 /\ InitCfg!19 /\ InitCfg!20
    /\ \E c \in ValConfigs :
           run = [n |-> 0, given |-> c, c |-> c, before |-> c, errs |-> <<>>]

ValidateCalled ==
    /\ run.n < MaxCalls
    /\ LET res == ConfigValidate(run.c)
       IN  run' = [run EXCEPT !.n = @ + 1, !.c = res.c, !.before = run.c,
                              !.errs = Append(@, res.err)]
    /\ UNCHANGED <<mutex, config, subscribers, configSuccessMetric, configHashMetric, configFile, configOnDisk, replay, routeObj, recvArr,
                   pc, call, conf, err, idx, pre, calls, registered, lastAdd, args>>

NextValidate == ValidateCalled
SpecValidate == InitValidate /\ [][NextValidate]_vars

\* ------------------------------------- Config.Validate, on routing trees
\* Validate on Configs whose routes go two levels below the root: routes that
\* name a declared receiver, an undeclared one or none, and routes with a
\* group_interval or repeat_interval of their own.
ValParent(n, kids) == [ValChild(n, <<>>) EXCEPT !.Routes = kids]
ValTimed(n, gi, ri) ==
    [ValChild(n, <<>>) EXCEPT !.GroupInterval = gi, !.RepeatInterval = ri]
ValTrees ==
    {<<>>,
     <<ValChild("a", <<>>)>>,
     <<ValChild("", <<>>)>>,
     <<ValChild("a", <<"night">>)>>,
     <<ValParent("a", <<ValChild("a", <<>>)>>)>>,
     <<ValParent("a", <<ValChild("b", <<>>)>>)>>,
     <<ValParent("a", <<ValChild("", <<>>)>>)>>,
     <<ValParent(DefaultReceiver, <<ValChild(DefaultReceiver, <<"night">>)>>)>>,
     <<ValTimed("a", "0s", "nil")>>,
     <<ValTimed("a", "5m", "0s")>>,
     <<ValParent("a", <<ValTimed("a", "0s", "5m")>>)>>,
     <<ValChild(DefaultReceiver, <<>>), ValChild("a", <<>>)>>}
ValTreeRoots ==
    {[ValNilRoot EXCEPT !.nil = FALSE, !.Receiver = rc, !.GroupByStr = <<"alertname">>,
                        !.GroupInterval = gi, !.Routes = t] :
         rc \in {"", DefaultReceiver}, gi \in {"nil", "0s", "5m"}, t \in ValTrees}
ValTreeConfigs ==
    [Global : {"nil", "default"},
     Route : ValTreeRoots,
     Receivers : ValReceiverLists,
     MuteTimeIntervals : {<<>>, <<"night">>}]

InitTree ==
    /\ InitCfg!1 /\ InitCfg!2 /\ InitCfg!3 /\ InitCfg!4 /\ InitCfg!5 /\ InitCfg!6
    /\ InitCfg!7 /\ InitCfg!8 /\ InitCfg!9 /\ InitCfg!10 /\ InitCfg!11 /\ InitCfg!12
    /\ InitCfg!13 /\ InitCfg!14 /\ InitCfg!15 /\ InitCfg!16 /\ InitCfg!17
    /\ InitCfg!18 /\ InitCfg!19 /\ InitCfg!20
    /\ \E c \in ValTreeConfigs :
           run = [n |-> 0, given |-> c, c |-> c, before |-> c, errs |-> <<>>]

SpecTree == InitTree /\ [][NextValidate]_vars

\* ------------------------------------ notify: Retrier.Check, GetFailureReason
\* A text is a sequence of words; strings.Contains is containment of a
\* contiguous run of words.
Contains(msg, pattern) ==
    \E i \in 1..(Len(msg) + 1) :
        /\ i + Len(pattern) - 1 <= Len(msg)
        /\ SubSeq(msg, i, i + Len(pattern) - 1) = pattern

RetryMsgs == << <<"Microsoft Teams endpoint returned HTTP error", "429">> >>

\* isMatched: whether msg contains one of the patterns.
isMatched(patterns, msg) == \E k \in 1..Len(patterns) : Contains(msg, patterns[k])

\* Integer division of Go, which truncates toward zero.
GoDiv(a, b) == IF a >= 0 THEN a \div b ELSE 0 - ((0 - a) \div b)

\* A response body: a nil Reader, a Reader that yields text, or a Reader
\* whose Read fails.
NilBody == [kind |-> "nil", text |-> <<>>]
Body(text) == [kind |-> "reader", text |-> text]
BrokenBody(text) == [kind |-> "broken", text |-> text]

readAll(body) == IF body.kind = "reader" THEN body.text ELSE <<>>

\* CustomDetailsFunc of a Retrier: nil, or a function of the status code and
\* the body.  "echo" returns what the body yields, "status" returns a text for
\* statuses from 400 on and nothing otherwise, "soft" returns the text of a
\* soft failure whatever the response.
Details(r, statusCode, body) ==
    IF r.CustomDetailsFunc = "nil" THEN readAll(body)
    ELSE IF r.CustomDetailsFunc = "echo" THEN readAll(body)
    ELSE IF r.CustomDetailsFunc = "status"
    THEN IF statusCode >= 400 THEN <<"request failed">> ELSE <<>>
    ELSE RetryMsgs[1]

\* The two results of Check: retry and the error (nil, or its message).
Checked(retry, e) == [retry |-> retry, err |-> e]
NilError == [nil |-> TRUE, msg |-> <<>>]
ErrorsNew(msg) == [nil |-> FALSE, msg |-> msg]

\* Check, after the details are read: whether the status is retried.
RetriedNever(r, statusCode) == FALSE
RetriedOn5xx(r, statusCode) == GoDiv(statusCode, 100) = 5
Retried(r, statusCode) ==
    \/ GoDiv(statusCode, 100) = 5
    \/ \E k \in 1..Len(r.RetryCodes) : r.RetryCodes[k] = statusCode

\* Check, after the details are read: the message of the error.
CheckMessage(statusCode, details) ==
    IF details # <<>>
    THEN IF GoDiv(statusCode, 100) # 2
         THEN <<"unexpected status code", ToString(statusCode), ":">> \o details
         ELSE details
    ELSE <<"unexpected status code", ToString(statusCode)>>

CheckAccepting(r, statusCode, body) == Checked(FALSE, NilError)
\* Check, after the details are read and matched with the retry messages.
CheckFrom(r, statusCode, details, matched) ==
    IF ~matched /\ GoDiv(statusCode, 100) = 2
    THEN Checked(FALSE, NilError)
    ELSE Checked(Retried(r, statusCode), ErrorsNew(CheckMessage(statusCode, details)))
Check(r, statusCode, body) ==
    LET details == Details(r, statusCode, body)
    IN  CheckFrom(r, statusCode, details, isMatched(RetryMsgs, details))

GetFailureReasonByStatus(statusCode, responseContent) ==
    IF GoDiv(statusCode, 100) = 4 THEN "clientError"
    ELSE IF GoDiv(statusCode, 100) = 5 THEN "serverError"
    ELSE "other"
\* GetFailureReason, after the content is matched with the retry messages.
ReasonFrom(statusCode, responseContent, matched) ==
    IF Len(responseContent) > 0 /\ GoDiv(statusCode, 100) = 2 /\ matched
    THEN "clientError"
    ELSE IF GoDiv(statusCode, 100) = 4 THEN "clientError"
    ELSE IF GoDiv(statusCode, 100) = 5 THEN "serverError"
    ELSE "other"
GetFailureReason(statusCode, responseContent) ==
    ReasonFrom(statusCode, responseContent, isMatched(RetryMsgs, responseContent))

\* The statuses, texts, bodies and Retriers the functions are called with.
Statuses == {0 - 250, 0, 99, 100, 199, 200, 204, 299, 300, 399, 400, 404, 429, 499,
             500, 503, 599, 600, 2000, 5000}
Texts ==
    {<<>>,
     <<"ok">>,
     RetryMsgs[1],
     <<"teams:">> \o RetryMsgs[1] \o <<"try later">>,
     <<"Microsoft Teams endpoint returned HTTP error", "500">>,
     <<"429", "Microsoft Teams endpoint returned HTTP error">>}
Bodies == {NilBody} \cup {Body(t) : t \in Texts} \cup {BrokenBody(RetryMsgs[1])}
Retriers ==
    [CustomDetailsFunc : {"nil", "echo", "status", "soft"},
     RetryCodes : {<<>>, <<429>>, <<429, 404>>, <<200, 302>>}]

\* run, for these functions: the Retrier, the arguments of the call, and the
\* results once the function has returned.
InitRetry ==
    /\ InitCfg!1 /\ InitCfg!2 /\ InitCfg!3 /\ InitCfg!4 /\ InitCfg!5 /\ InitCfg!6
    /\ InitCfg!7 /\ InitCfg!8 /\ InitCfg!9 /\ InitCfg!10 /\ InitCfg!11 /\ InitCfg!12
    /\ InitCfg!13 /\ InitCfg!14 /\ InitCfg!15 /\ InitCfg!16 /\ InitCfg!17
    /\ InitCfg!18 /\ InitCfg!19 /\ InitCfg!20
    /\ \E r \in Retriers, code \in Statuses, body \in Bodies :
           run = [n |-> 0, fn |-> "none", r |-> r, statusCode |-> code, body |-> body,
                  checked |-> Checked(FALSE, NilError), reason |-> "other"]

RetryUnchanged ==
    UNCHANGED <<mutex, config, subscribers, configSuccessMetric, configHashMetric, configFile, configOnDisk, replay, routeObj, recvArr,
                pc, call, conf, err, idx, pre, calls, registered, lastAdd, args>>

\* r.Check(statusCode, body) is called and returns.
CheckCalled ==
    /\ run.n = 0
    /\ run' = [run EXCEPT !.n = 1, !.fn = "Check",
                          !.checked = Check(run.r, run.statusCode, run.body)]
    /\ RetryUnchanged

\* GetFailureReason(statusCode, responseContent) is called with the text the
\* body yields, and returns.
GetFailureReasonCalled ==
    /\ run.n = 0
    /\ run' = [run EXCEPT !.n = 1, !.fn = "GetFailureReason",
                          !.reason = GetFailureReason(run.statusCode, run.body.text)]
    /\ RetryUnchanged

NextRetry == CheckCalled \/ GetFailureReasonCalled
SpecRetry == InitRetry /\ [][NextRetry]_vars

\* ------------------------- notify: Check and GetFailureReason, concurrently
\* Goroutines call Check and GetFailureReason on one Retrier, each with its
\* own arguments, and their steps interleave.  What they share is the Retrier
\* and the package variable RetryMsgs; details, the match and the results are
\* locals of each call.  run holds the shared values (r, msgs) and, for each
\* goroutine, its position, its arguments and its locals (g).
SharedStatuses == {200, 429, 500}
SharedBodies == {NilBody, Body(RetryMsgs[1])}
SharedRetriers == {[CustomDetailsFunc |-> "nil", RetryCodes |-> <<>>],
                   [CustomDetailsFunc |-> "echo", RetryCodes |-> <<429>>]}
Resting ==
    [pc |-> "idle", fn |-> "none", statusCode |-> 200, body |-> NilBody,
     details |-> <<>>, matched |-> FALSE, checked |-> Checked(FALSE, NilError),
     reason |-> "other"]

InitShared ==
    /\ InitCfg!1 /\ InitCfg!2 /\ InitCfg!3 /\ InitCfg!4 /\ InitCfg!5 /\ InitCfg!6
    /\ InitCfg!7 /\ InitCfg!8 /\ InitCfg!9 /\ InitCfg!10 /\ InitCfg!11 /\ InitCfg!12
    /\ InitCfg!13 /\ InitCfg!14 /\ InitCfg!15 /\ InitCfg!16 /\ InitCfg!17
    /\ InitCfg!18 /\ InitCfg!19 /\ InitCfg!20
    /\ \E r \in SharedRetriers :
           run = [n |-> 0, r |-> r, msgs |-> RetryMsgs, g |-> [p \in Procs |-> Resting]]

\* The local variable that holds the result of isMatched.
MatchedKeptShared(st, p, v) ==
    [st EXCEPT !.g = [q \in Procs |-> [st.g[q] EXCEPT !.matched = v]]]
MatchedKept(st, p, v) == [st EXCEPT !.g[p].matched = v]

\* A goroutine enters Check or GetFailureReason with its arguments.
Entered(p, fn, statusCode, body) ==
    /\ run.g[p].pc = "idle"
    /\ run' = [run EXCEPT !.g[p] = [Resting EXCEPT !.pc = IF fn = "Check" THEN "details"
                                                          ELSE "match",
                                                   !.fn = fn,
                                                   !.statusCode = statusCode,
                                                   !.body = body,
                                                   !.details = IF fn = "Check" THEN <<>>
                                                               ELSE body.text]]
    /\ RetryUnchanged

\* Check: details is read through CustomDetailsFunc or readAll.
DetailsRead(p) ==
    /\ run.g[p].pc = "details"
    /\ run' = [run EXCEPT !.g[p].pc = "match",
                          !.g[p].details = Details(run.r, run.g[p].statusCode,
                                                   run.g[p].body)]
    /\ RetryUnchanged

\* isMatched(RetryMsgs, ...) is evaluated.
Matched(p) ==
    /\ run.g[p].pc = "match"
    /\ run' = MatchedKept([run EXCEPT !.g[p].pc = "return"], p,
                          isMatched(run.msgs, run.g[p].details))
    /\ RetryUnchanged

\* The call returns what it computes from its locals.
Returned(p) ==
    /\ run.g[p].pc = "return"
    /\ run' = [run EXCEPT
                   !.g[p].pc = "idle",
                   !.g[p].checked =
                       IF run.g[p].fn = "Check"
                       THEN CheckFrom(run.r, run.g[p].statusCode, run.g[p].details,
                                      run.g[p].matched)
                       ELSE @,
                   !.g[p].reason =
                       IF run.g[p].fn = "GetFailureReason"
                       THEN ReasonFrom(run.g[p].statusCode, run.g[p].details,
                                       run.g[p].matched)
                       ELSE @]
    /\ RetryUnchanged

NextShared ==
    \E p \in Procs :
        \/ \E fn \in {"Check", "GetFailureReason"}, statusCode \in SharedStatuses,
              body \in SharedBodies : Entered(p, fn, statusCode, body)
        \/ DetailsRead(p)
        \/ Matched(p)
        \/ Returned(p)
SpecShared == InitShared /\ [][NextShared]_vars

\* ------------------------------------------------------ notify: RedactURL
\* An error is a plain error with a text, a *url.Error (Op, URL, Err), or an
\* error that wraps another with a message, as errors.Wrap makes.  A URL is
\* the words of its scheme, host and path.
PlainError(text) == [kind |-> "plain", text |-> text]
URLError(op, u, inner) == [kind |-> "url", Op |-> op, URL |-> u, Err |-> inner]
WrappedError(msg, cause) == [kind |-> "wrapped", msg |-> msg, cause |-> cause]

URLOf(host, path) == <<"https://", host, path>>

\* Error(): of a *url.Error it is Op, the quoted URL and the text of Err; of
\* a wrapping error the message and the text of its cause.
RECURSIVE ErrorText(_)
ErrorText(e) ==
    IF e.kind = "plain" THEN e.text
    ELSE IF e.kind = "url"
    THEN <<e.Op, "\"">> \o e.URL \o <<"\"", ":">> \o ErrorText(e.Err)
    ELSE <<e.msg, ":">> \o ErrorText(e.cause)

RedactURL(e) == IF e.kind = "url" THEN [e EXCEPT !.URL = <<"<redacted>">>] ELSE e

\* The errors RedactURL is given: what http.Client.Do returns for a request
\* to a URL (a *url.Error whose Err is a timeout, a cancelled context or a
\* failed lookup of the host), the same wrapped by a caller, and plain errors.
RedactHosts == {"hooks.slack.com", "example.org"}
RedactPaths == {"/services/T0/B0", "/hook"}
InnerErrors(host) ==
    {PlainError(<<"context deadline exceeded">>),
     PlainError(<<"context canceled">>),
     PlainError(<<"dial tcp: lookup", host, ": no such host">>)}
URLErrors ==
    {URLError(op, URLOf(host, path), inner) :
         op \in {"Get", "Post"},
         host \in RedactHosts,
         path \in RedactPaths,
         inner \in UNION {InnerErrors(h) : h \in RedactHosts}}
RedactInputs ==
    URLErrors
    \cup {WrappedError(msg, e) : msg \in {"failed to post", "notify"}, e \in URLErrors}
    \cup {PlainError(<<"unexpected status code", "500">>)}

InitRedact ==
    /\ InitCfg!1 /\ InitCfg!2 /\ InitCfg!3 /\ InitCfg!4 /\ InitCfg!5 /\ InitCfg!6
    /\ InitCfg!7 /\ InitCfg!8 /\ InitCfg!9 /\ InitCfg!10 /\ InitCfg!11 /\ InitCfg!12
    /\ InitCfg!13 /\ InitCfg!14 /\ InitCfg!15 /\ InitCfg!16 /\ InitCfg!17
    /\ InitCfg!18 /\ InitCfg!19 /\ InitCfg!20
    /\ \E e \in RedactInputs : run = [n |-> 0, given |-> e, out |-> e]

\* RedactURL(err) is called and returns.
RedactURLCalled ==
    /\ run.n = 0
    /\ run' = [run EXCEPT !.n = 1, !.out = RedactURL(run.given)]
    /\ RetryUnchanged

NextRedact == RedactURLCalled
SpecRedact == InitRedact /\ [][NextRedact]_vars

\* ------------------------------------- notify: TruncateInRunes, Truncate
\* A string is the sequence of its characters as encoded: "a" takes one byte,
\* "U+00E9" two, "U+4E16" three, and "\xff" is a byte that is no valid UTF-8.
MaxLen == 5        \* characters of a string at most

Chars == {"a", "U+00E9", "U+4E16", "0xFF"}
ByteLen(ch) == IF ch = "U+00E9" THEN 2 ELSE IF ch \in {"U+4E16", "U+2026", "U+FFFD"} THEN 3 ELSE 1

\* []rune(s): one rune for each character, U+FFFD for an invalid byte.
RECURSIVE BytesOf(_)
BytesOf(s) ==
    IF s = <<>> THEN <<>>
    ELSE [i \in 1..ByteLen(Head(s)) |-> IF ByteLen(Head(s)) = 1 THEN Head(s) ELSE "0x80"]
         \o BytesOf(Tail(s))
Runes(s) == [i \in 1..Len(s) |-> IF s[i] = "0xFF" THEN "U+FFFD" ELSE s[i]]

truncationMarker == <<"U+2026">>

Truncated(s, t) == [s |-> s, truncated |-> t]

TruncateInRunes(s, n) ==
    LET r == Runes(s)
    IN  IF Len(r) <= n THEN Truncated(s, FALSE)
        ELSE IF n <= 3 THEN Truncated(SubSeq(r, 1, n), TRUE)
        ELSE Truncated(SubSeq(r, 1, n - 1) \o truncationMarker, TRUE)

Truncate(s, n) ==
    LET r == Runes(s)
    IN  IF Len(r) <= n THEN Truncated(s, FALSE)
        ELSE IF n <= 3 THEN Truncated(SubSeq(r, 1, n), TRUE)
        ELSE Truncated(SubSeq(r, 1, n - 3) \o <<".", ".", ".">>, TRUE)

\* run, for these functions: the string, the size, and both results.
InitTruncate ==
    /\ InitCfg!1 /\ InitCfg!2 /\ InitCfg!3 /\ InitCfg!4 /\ InitCfg!5 /\ InitCfg!6
    /\ InitCfg!7 /\ InitCfg!8 /\ InitCfg!9 /\ InitCfg!10 /\ InitCfg!11 /\ InitCfg!12
    /\ InitCfg!13 /\ InitCfg!14 /\ InitCfg!15 /\ InitCfg!16 /\ InitCfg!17
    /\ InitCfg!18 /\ InitCfg!19 /\ InitCfg!20
    /\ \E s \in SeqsUpTo(Chars, MaxLen), n \in 0..(MaxLen + 1) :
           run = [n |-> 0, fn |-> "none", s |-> s, size |-> n,
                  out |-> Truncated(<<>>, FALSE)]

TruncateInRunesCalled ==
    /\ run.n = 0
    /\ run' = [run EXCEPT !.n = 1, !.fn = "TruncateInRunes",
                          !.out = TruncateInRunes(run.s, run.size)]
    /\ RetryUnchanged

TruncateCalled ==
    /\ run.n = 0
    /\ run' = [run EXCEPT !.n = 1, !.fn = "Truncate", !.out = Truncate(run.s, run.size)]
    /\ RetryUnchanged

NextTruncate == TruncateInRunesCalled \/ TruncateCalled
SpecTruncate == InitTruncate /\ [][NextTruncate]_vars

\* ------------------------------------ Reload with channels that fail
\* The query service answers every Reload with the same channels, among them
\* channels whose data does not decode and channels whose receiver is already
\* in the Config; the Coordinator starts with the Config of an earlier,
\* successful Reload.
MaxLoad == 3       \* channels of the answer at most

LoadItems ==
    {Channel(FALSE, "", "none"),
     Channel(TRUE, "a", "url"),
     Channel(TRUE, DefaultReceiver, "url")}

InitLoad ==
    /\ InitAdd!1 /\ InitAdd!2 /\ InitAdd!3 /\ InitAdd!4 /\ InitAdd!5 /\ InitAdd!6
    /\ InitAdd!7 /\ InitAdd!8 /\ InitAdd!9 /\ InitAdd!10 /\ InitAdd!11 /\ InitAdd!12
    /\ InitAdd!13 /\ InitAdd!14 /\ InitAdd!15 /\ InitAdd!16 /\ InitAdd!17
    /\ InitAdd!18 /\ InitAdd!19 /\ InitAdd!20
    /\ \E fetched \in BOOLEAN, q \in SeqsUpTo(LoadItems, MaxLoad) :
           /\ ~fetched => q = <<>>
           /\ run = [n |-> 0, fetched |-> fetched, channels |-> q]

NextLoad ==
    \E p \in Procs :
        \/ Reload(p, run.fetched, run.channels)
        \/ Install(p)
        \/ \E ok \in BOOLEAN : Notify(p, ok)
        \/ Updated(p)
        \/ Return(p)
SpecLoad == InitLoad /\ [][NextLoad]_vars

\* ------------------------------------------ the calls left when the
\* rejected ones are removed
\* replay is a second Coordinator, with a heap of its own, on which only the
\* calls are made that did not return a validation or precondition error on
\* the first: its Config, its heap, and whether one of these calls has
\* returned such an error on it.
ReplayOf(c, ro, ra, differs) ==
    [set |-> TRUE, c |-> c, ro |-> ro, ra |-> ra, differs |-> differs]

\* AddRoute, EditRoute or DeleteRoute on the replayed Coordinator, res being
\* what the method of Config returns on the copy of its Config: the method
\* writes through the pointers of the copy, and the copy is installed when the
\* method and Validate return nil.  What its array holds past the length of
\* its only slice is never read again and is dropped.
ReplayMutated(res) ==
    LET e == IF res.err # NoError THEN res.err ELSE Validate(res.c, res.ro, res.ra)
        c == IF e = NoError THEN res.c ELSE replay.c
    IN  ReplayOf(c, res.ro,
                 [res.ra EXCEPT ![c.Receivers.arr] = SubSeq(@, 1, c.Receivers.len)],
                 replay.differs \/ e # NoError)

\* The call of caller p is made on the replayed Coordinator when it is not
\* rejected, that is, when it goes on to install its copy.
Replayed(p, res) ==
    replay' = IF pc'[p] = "install" THEN ReplayMutated(res) ELSE replay

ReplayAddRoute(p, r, rcv) ==
    /\ Lock(p, CallOf("AddRoute", rcv.Name))
    /\ UNCHANGED subscribers
    /\ Mutated(p, ConfigAddRoute(ShallowCopy(config), routeObj, recvArr, r, rcv))
    /\ Replayed(p, ConfigAddRoute(ShallowCopy(replay.c), replay.ro, replay.ra, r, rcv))

ReplayEditRoute(p, r, rcv) ==
    /\ Lock(p, CallOf("EditRoute", rcv.Name))
    /\ UNCHANGED subscribers
    /\ Mutated(p, ConfigEditRoute(ShallowCopy(config), routeObj, recvArr, r, rcv))
    /\ Replayed(p, ConfigEditRoute(ShallowCopy(replay.c), replay.ro, replay.ra, r, rcv))

ReplayDeleteRoute(p, name) ==
    /\ Lock(p, CallOf("DeleteRoute", name))
    /\ UNCHANGED subscribers
    /\ Mutated(p, ConfigDeleteRoute(ShallowCopy(config), routeObj, recvArr, name))
    /\ Replayed(p, ConfigDeleteRoute(ShallowCopy(replay.c), replay.ro, replay.ra, name))

\* Both Coordinators after the same successful Reload, of no channel or of
\* one, with the same subscribers.
ReplayStarts ==
    {LoaderLoad(InitConfig(1, [id \in HeapIds |-> EmptyRoot], [id \in HeapIds |-> <<>>]),
                TRUE, channels) : channels \in {<<>>, StartChannels}}

InitReplay ==
    /\ mutex = FALSE
    /\ \E loaded \in ReplayStarts :
           /\ config = Installed(loaded.c, loaded.ro, loaded.ra)
           /\ routeObj = loaded.ro
           /\ recvArr = loaded.ra
           /\ replay = ReplayOf(loaded.c, loaded.ro, loaded.ra, FALSE)
    /\ \E n \in 0..MaxSubs : subscribers = [i \in 1..n |-> i]
    /\ registered = subscribers
    /\ configSuccessMetric = 1
    /\ configHashMetric = md5HashAsMetricValue(config.original)
    /\ configFile = NoFile
    /\ configOnDisk = NilConfig
    /\ pc = [p \in Procs |-> "idle"]
    /\ call = [p \in Procs |-> NoCall]
    /\ conf = [p \in Procs |-> NilConfig]
    /\ err = [p \in Procs |-> NoError]
    /\ idx = [p \in Procs |-> 0]
    /\ pre = [p \in Procs |-> EmptyView]
    /\ calls = [p \in Procs |-> <<>>]
    /\ lastAdd = NoAdd
    /\ args = NoArgs
    /\ run = NoRun

NextReplay ==
    \E p \in Procs :
        \/ /\ Len(LiveView.Route.Routes) < MaxRoutes
           /\ \E r \in RouteArgs, rcv \in ReceiverArgs : ReplayAddRoute(p, r, rcv)
        \/ \E r \in RouteArgs, rcv \in ReceiverArgs : ReplayEditRoute(p, r, rcv)
        \/ \E name \in NameArgs : ReplayDeleteRoute(p, name)
        \/ Install(p)
        \/ \E ok \in BOOLEAN : Notify(p, ok)
        \/ Updated(p)
        \/ Return(p)
SpecReplay == InitReplay /\ [][NextReplay]_vars

\* ------------------------------ the file-backed Coordinator (configOnDisk)
\* The text of a config file: the root route with its top-level routes, and
\* the receivers, each with what the text says of its Slack api_url: "none"
\* (no Slack config), "nourl" (a Slack config without api_url), a URL, or the
\* token that stands for a secret.
SlackURL == "https://hooks.slack.example/T1"
secretToken == "<secret>"

FileText(routes, rcvs) ==
    [exists |-> TRUE,
     route |-> [receiver |-> DefaultReceiver, continue |-> FALSE, routes |-> routes],
     receivers |-> rcvs]

\* SecretURL.UnmarshalYAML: the token is read as an empty URL, anything else
\* as the URL it spells.
UnmarshalSecretURL(str) ==
    IF str = secretToken THEN "secret" ELSE IF str = SlackURL THEN "url" ELSE str

\* SecretURL.MarshalYAML: a URL is written as the token.
MarshalSecretURL(slack) ==
    IF slack \in {"url", "secret"} THEN secretToken ELSE slack

\* Load: the text is unmarshalled into a new Config at heap cell id, which
\* Config.UnmarshalYAML validates, and the text is kept as its original.
Load(text, id, ro, ra) ==
    LET c == [set |-> TRUE, Route |-> id,
              Receivers |-> [arr |-> id, len |-> Len(text.receivers)],
              original |-> text]
        parsedRoot ==
            [Receiver |-> text.route.receiver, Continue |-> text.route.continue,
             Routes |-> [k \in 1..Len(text.route.routes) |->
                            Rt(text.route.routes[k].receiver,
                               text.route.routes[k].continue)]]
        parsedReceivers ==
            [k \in 1..Len(text.receivers) |->
                Rcv(text.receivers[k].name,
                    UnmarshalSecretURL(text.receivers[k].slack_api_url))]
        e == Validate(c, [ro EXCEPT ![id] = parsedRoot],
                      [ra EXCEPT ![id] = parsedReceivers])
    IN  IF e # NoError THEN Res(e, NilConfig, ro, ra)
        ELSE Res(NoError, c, [ro EXCEPT ![id] = parsedRoot],
                 [ra EXCEPT ![id] = parsedReceivers])

\* Config.String: yaml.Marshal of the Config.
ConfigString(c, ro, ra) ==
    LET v == ViewOf(c, ro, ra)
    IN  [exists |-> TRUE,
         route |-> [receiver |-> v.Route.Receiver, continue |-> v.Route.Continue,
                    routes |-> [k \in 1..Len(v.Route.Routes) |->
                                   [receiver |-> v.Route.Routes[k].Receiver,
                                    continue |-> v.Route.Routes[k].Continue]]],
         receivers |-> [k \in 1..Len(v.Receivers) |->
                           [name |-> v.Receivers[k].Name,
                            slack_api_url |-> MarshalSecretURL(v.Receivers[k].Slack)]]]

\* The files an operator writes: the default receiver, and a route and a
\* receiver for each of some names, with the receivers' Slack URLs spelled out.
OperatorTexts ==
    {FileText([k \in 1..Len(q) |-> [receiver |-> q[k], continue |-> TRUE]],
              <<[name |-> DefaultReceiver, slack_api_url |-> "none"]>> \o
              [k \in 1..Len(q) |-> [name |-> q[k], slack_api_url |-> u]]) :
        q \in {<<>>, <<"a">>}, u \in {"none", SlackURL}}

\* The file-backed Coordinator after NewCoordinator, with a config file at
\* configFilePath.
InitDisk ==
    /\ mutex = FALSE
    /\ config = NilConfig
    /\ subscribers = <<>>
    /\ configSuccessMetric = 0
    /\ configHashMetric = GaugeUnset
    /\ configFile \in OperatorTexts
    /\ configOnDisk = NilConfig
    /\ replay = NoReplay
    /\ routeObj = [id \in HeapIds |-> EmptyRoot]
    /\ recvArr = [id \in HeapIds |-> <<>>]
    /\ pc = [p \in Procs |-> "idle"]
    /\ call = [p \in Procs |-> NoCall]
    /\ conf = [p \in Procs |-> NilConfig]
    /\ err = [p \in Procs |-> NoError]
    /\ idx = [p \in Procs |-> 0]
    /\ pre = [p \in Procs |-> EmptyView]
    /\ calls = [p \in Procs |-> <<>>]
    /\ registered = <<>>
    /\ lastAdd = NoAdd
    /\ args = NoArgs
    /\ run = NoRun

\* Reload of the file-backed Coordinator, under the mutex from start to end:
\* loadFromFile replaces c.config by what LoadFile reads at heap cell 1, the
\* subscribers (none is registered here) are notified and the metrics set.
\* configOnDisk is not touched.
DiskReload ==
    /\ LET loaded == Load(configFile, 1, routeObj, recvArr)
       IN  IF loaded.err # NoError
           THEN /\ configSuccessMetric' = 0
                /\ err' = [err EXCEPT ![1] = loaded.err]
                /\ UNCHANGED <<config, routeObj, recvArr, configHashMetric>>
           ELSE /\ config' = loaded.c
                /\ routeObj' = loaded.ro
                /\ recvArr' = loaded.ra
                /\ configSuccessMetric' = 1
                /\ configHashMetric' = md5HashAsMetricValue(loaded.c.original)
                /\ err' = [err EXCEPT ![1] = NoError]
    /\ call' = [call EXCEPT ![1] = CallOf("Reload", "")]
    /\ UNCHANGED <<mutex, subscribers, configFile, configOnDisk, replay, pc, conf, idx, pre,
                   calls, registered, lastAdd, args, run>>

\* The head of AddRoute, EditRoute and DeleteRoute: configOnDisk, which
\* loadDiskConfig fills at heap cell 2 from c.config.original when it is nil.
\* The original of a loaded Config is never empty.
loadDiskConfig(ro, ra) ==
    IF configOnDisk.set THEN Res(NoError, configOnDisk, ro, ra)
    ELSE Load(config.original, 2, ro, ra)

\* saveUpdatesToDisk: the file is opened, which can fail, and rewritten.
SaveError == "failed to open config file from disk for update"

\* AddRoute, EditRoute and DeleteRoute of the file-backed Coordinator, under
\* configWriteLock from start to end: the method of Config runs on
\* configOnDisk (res) and, when it returns nil, configOnDisk.String() is
\* written to the file.  Before the first Reload c.config is nil and the call
\* ends in a nil dereference: the call is modelled once a Config is live.
\* configOnDisk is the only slice over its array, so what the array holds
\* past the slice's length is never read again and is dropped.
DiskUpdated(op, name, cached, res, saved) ==
    /\ IF cached.err # NoError
       THEN /\ err' = [err EXCEPT ![1] = cached.err]
            /\ UNCHANGED <<configOnDisk, routeObj, recvArr, configFile>>
       ELSE /\ configOnDisk' = res.c
            /\ routeObj' = res.ro
            /\ recvArr' = [res.ra EXCEPT ![res.c.Receivers.arr] =
                               SubSeq(@, 1, res.c.Receivers.len)]
            /\ IF res.err # NoError
               THEN /\ err' = [err EXCEPT ![1] = res.err]
                    /\ UNCHANGED configFile
               ELSE IF saved
               THEN /\ configFile' = ConfigString(res.c, res.ro, res.ra)
                    /\ err' = [err EXCEPT ![1] = NoError]
               ELSE /\ err' = [err EXCEPT ![1] = SaveError]
                    /\ UNCHANGED configFile
    /\ call' = [call EXCEPT ![1] = CallOf(op, name)]
    /\ UNCHANGED <<mutex, config, subscribers, configSuccessMetric, configHashMetric,
                   replay, pc, conf, idx, pre, calls, registered, lastAdd, args, run>>

DiskAddRoute(r, rcv, saved) ==
    /\ config.set
    /\ LET cached == loadDiskConfig(routeObj, recvArr)
       IN
        /\ cached.err = NoError => Len(cached.ro[cached.c.Route].Routes) < MaxRoutes
        /\ DiskUpdated("AddRoute", rcv.Name, cached,
                       ConfigAddRoute(cached.c, cached.ro, cached.ra, r, rcv), saved)

DiskEditRoute(r, rcv, saved) ==
    /\ config.set
    /\ LET cached == loadDiskConfig(routeObj, recvArr)
       IN
        DiskUpdated("EditRoute", rcv.Name, cached,
                    ConfigEditRoute(cached.c, cached.ro, cached.ra, r, rcv), saved)

DiskDeleteRoute(name, saved) ==
    /\ config.set
    /\ LET cached == loadDiskConfig(routeObj, recvArr)
       IN
        DiskUpdated("DeleteRoute", name, cached,
                    ConfigDeleteRoute(cached.c, cached.ro, cached.ra, name), saved)

\* The arguments of the updates: the channel "a", with and without a Slack
\* URL, and the arguments the methods of Config refuse.
DiskRouteArgs == {NilRoute, Rt("a", FALSE)}
DiskReceiverArgs == {Rcv("a", "url"), Rcv("a", "nourl"), Rcv("", "url")}
DiskNameArgs == {"a", ""}

NextDisk ==
    \/ DiskReload
    \/ \E r \in DiskRouteArgs, rcv \in DiskReceiverArgs, saved \in BOOLEAN :
           DiskAddRoute(r, rcv, saved)
    \/ \E r \in DiskRouteArgs, rcv \in DiskReceiverArgs, saved \in BOOLEAN :
           DiskEditRoute(r, rcv, saved)
    \/ \E name \in DiskNameArgs, saved \in BOOLEAN : DiskDeleteRoute(name, saved)
SpecDisk == InitDisk /\ [][NextDisk]_vars

\* --------------------------------- api/v1: addRoute, editRoute, deleteRoute
\* A request to a handler: whether its body can be read, whether the body
\* decodes to a Receiver, the name of that Receiver, how its webhook configs
\* validate, and the error the configuration update answers with on
\* updateConfigErrCh once the change request is sent.
Requests ==
    [read : BOOLEAN, json : BOOLEAN, name : {"", "a"},
     webhook : {"none", "valid", "invalid"},
     update : {NoError, "failed to update"}]

\* What respondError and respond write to the ResponseWriter.
ErrorResponse(typ) == [status |-> "error", typ |-> typ]
SuccessResponse == [status |-> "success", typ |-> ""]

\* The part the three handlers share: the body is read and decoded, and the
\* receiver must have a name.
Malformed(req) == ~req.read \/ ~req.json \/ req.name = ""

\* ConfigChangeRequest.Validate for AddRouteAction: Receiver.Validate.
ChangeRequestError(req) ==
    IF req.name = "" THEN "receiver name is mandatory"
    ELSE IF req.webhook = "invalid" THEN "invalid webhook config"
    ELSE NoError

addRoute(req) ==
    IF Malformed(req) THEN <<ErrorResponse("bad_data")>>
    ELSE IF ChangeRequestError(req) # NoError THEN <<ErrorResponse("server_error")>>
    ELSE IF req.update # NoError THEN <<ErrorResponse("server_error")>>
    ELSE <<SuccessResponse>>

editRoute(req) ==
    IF Malformed(req) THEN <<ErrorResponse("bad_data")>>
    ELSE IF req.update # NoError THEN <<ErrorResponse("server_error"), SuccessResponse>>
    ELSE <<SuccessResponse>>

deleteRoute(req) ==
    IF Malformed(req) THEN <<ErrorResponse("bad_data")>>
    ELSE IF req.update # NoError THEN <<ErrorResponse("server_error"), SuccessResponse>>
    ELSE <<SuccessResponse>>

\* run, for the handlers: the handler invoked, its request, and what it has
\* written to the ResponseWriter when it returns.
InitAPI ==
    /\ InitCfg!1 /\ InitCfg!2 /\ InitCfg!3 /\ InitCfg!4 /\ InitCfg!5 /\ InitCfg!6
    /\ InitCfg!7 /\ InitCfg!8 /\ InitCfg!9 /\ InitCfg!10 /\ InitCfg!11 /\ InitCfg!12
    /\ InitCfg!13 /\ InitCfg!14 /\ InitCfg!15 /\ InitCfg!16 /\ InitCfg!17
    /\ InitCfg!18 /\ InitCfg!19 /\ InitCfg!20
    /\ \E req \in Requests :
           run = [n |-> 0, handler |-> "none", req |-> req, written |-> <<>>]

Handled(handler, written) ==
    /\ run.n = 0
    /\ run' = [run EXCEPT !.n = 1, !.handler = handler, !.written = written]
    /\ RetryUnchanged

NextAPI ==
    \/ Handled("addRoute", addRoute(run.req))
    \/ Handled("editRoute", editRoute(run.req))
    \/ Handled("deleteRoute", deleteRoute(run.req))
SpecAPI == InitAPI /\ [][NextAPI]_vars

\* ----------------------------------------------------------------- claims
Mutations == {"AddRoute", "EditRoute", "DeleteRoute"}
Installers == Mutations \cup {"Reload"}

ReceiverNames(v) == [i \in 1..Len(v.Receivers) |-> v.Receivers[i].Name]
RouteNames(v) == [i \in 1..Len(v.Route.Routes) |-> v.Route.Routes[i].Receiver]
Range(q) == {q[i] : i \in 1..Len(q)}
Quiescent == \A p \in Procs : pc[p] = "idle"

\* C1: whenever AddRoute, EditRoute or DeleteRoute returns an error because
\* Validate rejected the edited copy, the live Config (the root's child
\* routes and the receivers, element by element) is what it was before the
\* call, and no subscriber was invoked.
C1_ValidationFailureKeepsLive ==
    \A p \in Procs :
        (pc[p] = "ret" /\ call[p].op \in Mutations /\ err[p] \in ValidateErrors)
            => (LiveView = pre[p] /\ calls[p] = <<>>)

\* C2: between calls, once a Config is live, its receiver names are pairwise
\* distinct, the root route's receiver is among the receivers, and so is the
\* receiver of every top-level child route.
C2_LiveConfigStructure ==
    (Quiescent /\ config.set) =>
        LET names == ReceiverNames(LiveView)
        IN  /\ \A i, j \in 1..Len(names) : names[i] = names[j] => i = j
            /\ LiveView.Route.Receiver \in Range(names)
            /\ Range(RouteNames(LiveView)) \subseteq Range(names)

\* C3: when each of the NProcs concurrent AddRoute calls, of pairwise distinct
\* new names, has returned, each has returned nil, and the live Config has
\* NProcs receivers and NProcs top-level routes more than at the start, every
\* added name among both.
C3_NoLostUpdate ==
    (\A p \in Procs : pc[p] = "done") =>
        /\ \A p \in Procs : err[p] = NoError
        /\ Len(LiveView.Receivers) = Len(StartView.Receivers) + NProcs
        /\ Len(LiveView.Route.Routes) = Len(StartView.Route.Routes) + NProcs
        /\ \A p \in Procs : /\ AdderName(p) \in Range(ReceiverNames(LiveView))
                            /\ AdderName(p) \in Range(RouteNames(LiveView))

C3_Witness ==
    /\ \A p \in Procs : pc[p] = "done" /\ err[p] = NoError
    /\ \E p \in Procs : Len(calls[p]) = MaxSubs
    /\ Len(LiveView.Receivers) = Len(StartView.Receivers) + NProcs

\* What belongs to the call of p alone.
Local(p) == <<pc[p], call[p], conf[p], err[p], idx[p], pre[p], calls[p]>>

\* C4: while one operation is between taking and releasing the lock, every
\* other caller is outside the lock and takes no step: at most one operation
\* is inside, and its copy, edit, validation, install and subscriber calls
\* run with no step of another operation in between.
C4_Serialized ==
    [][\A p, q \in Procs :
          (p # q /\ pc[p] # "idle") => (pc[q] = "idle" /\ Local(q)' = Local(q))]_vars

C4_Witness ==
    \E p \in Procs :
        /\ pc[p] = "notify" /\ call[p].op \in Mutations /\ Len(calls[p]) >= 1
        /\ \E q \in Procs : q # p /\ pc[q] = "idle"

\* C5: an AddRoute whose receiver has the name of a receiver of the live
\* Config returns an error, with the live Config's routes and receivers as
\* they were and no subscriber invoked.
C5_DuplicateNameRejected ==
    \A p \in Procs :
        (/\ pc[p] # "idle"
         /\ call[p].op = "AddRoute"
         /\ call[p].name \in Range(ReceiverNames(pre[p])))
            => /\ pc[p] = "ret"
               /\ err[p] # NoError
               /\ LiveView = pre[p]
               /\ calls[p] = <<>>

C5_Witness ==
    \E p \in Procs :
        /\ pc[p] = "ret"
        /\ call[p].op = "AddRoute"
        /\ call[p].name \in Range(ReceiverNames(pre[p]))
        /\ err[p] = "the channel name has to be unique"

\* C6: when DeleteRoute(x.Name) comes right after a successful AddRoute(r, x),
\* the live Config has the same sequence of receiver names and of route
\* receiver names (so the same counts) as before the AddRoute.
C6_AddThenDeleteRestores ==
    \A p \in Procs :
        (/\ pc[p] = "ret"
         /\ call[p].op = "DeleteRoute"
         /\ lastAdd.set
         /\ call[p].name = lastAdd.name)
            => /\ ReceiverNames(LiveView) = ReceiverNames(lastAdd.pre)
               /\ RouteNames(LiveView) = RouteNames(lastAdd.pre)

\* C7: when the loader returns an error, Reload returns that error, the live
\* Config is as before the call, no subscriber is invoked and the
\* last-reload-successful metric is 0.
C7_LoaderErrorKeepsLive ==
    \A p \in Procs :
        (pc[p] # "idle" /\ call[p].op = "Reload" /\ call[p].load # NoError)
            => /\ pc[p] = "ret"
               /\ err[p] = call[p].load
               /\ LiveView = pre[p]
               /\ calls[p] = <<>>
               /\ configSuccessMetric = 0

C7_Witness ==
    \E p \in Procs :
        /\ pc[p] = "ret"
        /\ call[p].op = "Reload"
        /\ call[p].load # NoError
        /\ config.set
        /\ Len(subscribers) >= 1

\* C8: in every install the i-th subscriber called is the i-th registered;
\* a subscriber that returned an error is the last one called, and the
\* operation returns its error.
C8_RegistrationOrder ==
    \A p \in Procs :
        \A i \in 1..Len(calls[p]) :
            /\ i <= Len(registered)
            /\ calls[p][i].s = registered[i]
            /\ ~calls[p][i].ok =>
                   /\ i = Len(calls[p])
                   /\ pc[p] = "ret"
                   /\ err[p] = SubscriberError

C8_Witness ==
    \E p \in Procs :
        /\ pc[p] = "ret"
        /\ Len(registered) = 2
        /\ Len(calls[p]) = 1
        /\ ~calls[p][1].ok

\* C9: when a Reload or mutation returns a subscriber's error, the live
\* Config is the new Config of that operation, not the one before, and no
\* subscriber registered after the failing one was given it.
C9_NoRollback ==
    \A p \in Procs :
        (pc[p] = "ret" /\ call[p].op \in Installers /\ err[p] = SubscriberError)
            => /\ config = conf[p]
               /\ LiveView = ViewOf(conf[p], routeObj, recvArr)
               /\ Len(calls[p]) >= 1
               /\ \A i \in 1..Len(registered) :
                      i > Len(calls[p]) =>
                          \A k \in 1..Len(calls[p]) : calls[p][k].s # registered[i]

C9_Witness ==
    \E p \in Procs :
        /\ pc[p] = "ret"
        /\ call[p].op = "AddRoute"
        /\ err[p] = SubscriberError
        /\ LiveView # pre[p]
        /\ Len(calls[p]) < Len(registered)

\* C10: when a Reload or mutation returns nil, every callback registered
\* before it has been invoked exactly once, with the Config that is live at
\* the return; when it returns an error of the loader, of the method of
\* Config or of Validate, no callback has been invoked.
C10_EveryCallbackOnce ==
    \A p \in Procs :
        (pc[p] = "ret" /\ call[p].op \in Installers) =>
            IF err[p] = NoError
            THEN /\ \A i \in 1..Len(registered) :
                        Cardinality({k \in 1..Len(calls[p]) :
                                        calls[p][k].s = registered[i]}) = 1
                 /\ \A k \in 1..Len(calls[p]) : calls[p][k].cfg = config
            ELSE err[p] # SubscriberError => calls[p] = <<>>

C10_Witness ==
    \E p \in Procs :
        /\ pc[p] = "ret"
        /\ call[p].op = "AddRoute"
        /\ err[p] = NoError
        /\ Len(registered) = 2
        /\ Len(calls[p]) = 2

\* The method of Config last called on the Config, its arguments valid.
Called(op) == call[1].op = op
ArgsGiven ==
    /\ ~args.r.nil /\ ~args.rcv.nil
    /\ args.r.Receiver # "" /\ args.rcv.Name # ""
UsedNames(v) == Range(ReceiverNames(v)) \cup Range(RouteNames(v))

\* C11: AddRoute returns an error and appends nothing whenever the route's
\* receiver name or the receiver's name is the name of an existing receiver
\* or the receiver name of an existing route.
C11_GlobalUniqueness ==
    (/\ Called("AddRoute")
     /\ ArgsGiven
     /\ {args.r.Receiver, args.rcv.Name} \cap UsedNames(pre[1]) # {})
        => (err[1] # NoError /\ LiveView = pre[1])

\* C12: an AddRoute that returns nil has appended the route, its continue
\* true whatever was passed, as the last child of the root, and the receiver
\* as the last receiver; what was there before is all there, in its order.
C12_AppendsLast ==
    (Called("AddRoute") /\ err[1] = NoError)
        => /\ LiveView.Route.Routes =
                  Append(pre[1].Route.Routes, Rt(args.r.Receiver, TRUE))
           /\ LiveView.Receivers = Append(pre[1].Receivers, args.rcv)
           /\ LiveView.Route.Receiver = pre[1].Route.Receiver
           /\ LiveView.Route.Continue = pre[1].Route.Continue

C12_Witness ==
    /\ Called("AddRoute")
    /\ err[1] = NoError
    /\ ~args.r.Continue
    /\ Len(pre[1].Route.Routes) >= 1

\* C13: EditRoute with a nil argument or an empty name returns an error;
\* otherwise it returns nil, every receiver of the name of x is x, the first
\* top-level route with the receiver of r is r, and every other route and
\* receiver is what it was, at its place.
C13_EditReplaces ==
    Called("EditRoute") =>
        IF ~ArgsGiven THEN err[1] # NoError
        ELSE LET old == pre[1]
                 new == LiveView
                 hits == {i \in 1..Len(old.Route.Routes) :
                             old.Route.Routes[i].Receiver = args.r.Receiver}
             IN  /\ err[1] = NoError
                 /\ Len(new.Receivers) = Len(old.Receivers)
                 /\ \A i \in 1..Len(old.Receivers) :
                        new.Receivers[i] = IF old.Receivers[i].Name = args.rcv.Name
                                           THEN args.rcv ELSE old.Receivers[i]
                 /\ Len(new.Route.Routes) = Len(old.Route.Routes)
                 /\ \A i \in 1..Len(old.Route.Routes) :
                        new.Route.Routes[i] =
                            IF i \in hits /\ \A j \in hits : i <= j
                            THEN args.r ELSE old.Route.Routes[i]

C13_Witness ==
    /\ Called("EditRoute")
    /\ err[1] = NoError
    /\ Len(pre[1].Route.Routes) = 2
    /\ pre[1].Route.Routes[1].Receiver = args.r.Receiver
    /\ pre[1].Route.Routes[2].Receiver = args.r.Receiver
    /\ LiveView.Route.Routes[1] # pre[1].Route.Routes[1]
    /\ \E i \in 1..Len(pre[1].Receivers) :
           pre[1].Receivers[i].Name = args.rcv.Name /\ pre[1].Receivers[i] # args.rcv

\* What is left of a sequence once its first element that satisfies hit is
\* taken out.
WithoutFirst(q, hits) ==
    IF hits = {} THEN q
    ELSE LET at == CHOOSE i \in hits : \A j \in hits : i <= j
         IN  [k \in 1..(Len(q) - 1) |-> IF k < at THEN q[k] ELSE q[k + 1]]

DeleteRouteEffect ==
    LET old == pre[1]
    IN  /\ LiveView.Route.Routes =
               WithoutFirst(old.Route.Routes,
                            {i \in 1..Len(old.Route.Routes) :
                                old.Route.Routes[i].Receiver = args.name})
        /\ LiveView.Receivers =
               WithoutFirst(old.Receivers,
                            {i \in 1..Len(old.Receivers) :
                                old.Receivers[i].Name = args.name})

\* C14 as stated: DeleteRoute(name), for every name, returns nil with the
\* first route and the first receiver of that name taken out and everything
\* else in its order, nothing changed when there is neither.
C14_DeleteAnyName ==
    Called("DeleteRoute") => (err[1] = NoError /\ DeleteRouteEffect)

\* C14 amended: for a non-empty name DeleteRoute returns nil with the first
\* route and the first receiver of that name taken out and everything else in
\* its order, nothing changed when there is neither; for the empty name it
\* returns an error and changes nothing.
C14_DeleteFirst ==
    Called("DeleteRoute") =>
        IF args.name = "" THEN err[1] # NoError /\ LiveView = pre[1]
        ELSE err[1] = NoError /\ DeleteRouteEffect

C14_Witness ==
    /\ Called("DeleteRoute")
    /\ err[1] = NoError
    /\ Len(pre[1].Route.Routes) = 2
    /\ pre[1].Route.Routes[1].Receiver = args.name
    /\ pre[1].Route.Routes[2].Receiver = args.name
    /\ Len(LiveView.Receivers) < Len(pre[1].Receivers)

\* What InitConfig builds with what a loader that fetched channels and
\* returned nil has put into it: the root of InitConfig with one route per
\* channel, and "default-receiver" followed by one receiver per channel.
LoadedView(channels) ==
    [Route |-> [Receiver |-> DefaultReceiver, Continue |-> FALSE,
                Routes |-> [i \in 1..Len(channels) |-> Rt(channels[i].Name, TRUE)]],
     Receivers |-> <<Rcv(DefaultReceiver, "none")>> \o
                   [i \in 1..Len(channels) |->
                       Rcv(channels[i].Name, channels[i].Slack)]]

\* C15: once a Reload whose loader returned nil has installed its Config, the
\* live Config holds what InitConfig and the loader built and nothing else:
\* the routes and receivers of the Config before are there only as far as the
\* loader supplied them.
C15_ReloadReplaces ==
    \A p \in Procs :
        (/\ pc[p] \in {"notify", "ret"}
         /\ call[p].op = "Reload"
         /\ call[p].load = NoError)
            => LiveView = LoadedView(call[p].channels)

C15_Witness ==
    \E p \in Procs :
        /\ pc[p] = "ret"
        /\ call[p].op = "Reload"
        /\ err[p] = NoError
        /\ pre[p].Route.Routes # <<>>
        /\ LiveView.Route.Routes = <<>>

\* C16: when an operation of the Coordinator returns, the original field of
\* the live Config is the serialized form of what the live Config holds, its
\* routes and receivers.
C16_OriginalIsLive ==
    \A p \in Procs :
        (pc[p] = "ret" /\ config.set) => config.original = Marshal(LiveView)

\* C17: a caller invokes a subscriber, reading the subscriber list and the
\* live Config, only while the mutex is held and no other caller is inside
\* an operation, that is, while it holds the mutex itself.
C17_ReadsUnderLock ==
    [][\A p \in Procs :
          Len(calls'[p]) > Len(calls[p])
              => (mutex /\ \A q \in Procs \ {p} : pc[q] = "idle")]_vars

\* C18: Validate returns an error for every Config whose root route has
\* continue set, whatever the rest of the Config holds.
C18_ContinueInRootRejected ==
    (run.n >= 1 /\ ~run.given.Route.nil /\ run.given.Route.Continue)
        => \A k \in 1..run.n : run.errs[k] # NoError
\* Validate has run on a Config that has continue in its root and nothing
\* else wrong.
C18_Witness ==
    /\ run.n >= 1
    /\ run.given.Route.Continue
    /\ ConfigValidate([run.given EXCEPT !.Route.Continue = FALSE]).err = NoError
    /\ run.errs[1] = "cannot have continue in root route"

\* C19: Validate returns an error for every Config whose root route has
\* matchers, in whichever of the three forms it has them: match, match_re or
\* matchers.
C19_MatchersInRootRejected ==
    (/\ run.n >= 1
     /\ ~run.given.Route.nil
     /\ \/ run.given.Route.Match # {}
        \/ run.given.Route.MatchRE # {}
        \/ run.given.Route.Matchers # <<>>)
        => run.errs[1] # NoError

\* C20: when Validate returns nil on a Config, a second call returns nil too
\* and leaves the Config as the first call left it: the same receivers, the
\* same routes, the same group-by labels and the same inherited settings.
C20_ValidateIdempotent ==
    (run.n = 2 /\ run.errs[1] = NoError)
        => (run.errs[2] = NoError /\ run.c = run.before)
\* Validate has run twice on a valid Config, and the first call changed it:
\* group-by labels were added, and a Slack config inherited its HTTPConfig.
C20_Witness ==
    /\ run.n = 2
    /\ run.errs[1] = NoError
    /\ run.given.Route.GroupBy # run.c.Route.GroupBy
    /\ \E i \in 1..Len(run.c.Receivers) :
           run.given.Receivers[i].HTTP = "nil" /\ run.c.Receivers[i].HTTP = "global"

\* Every route of a tree: the route and the routes under it, at any depth.
RECURSIVE RoutesOf(_)
RoutesOf(r) ==
    {r} \cup UNION {RoutesOf(SubRoutes(r)[i]) : i \in 1..Len(SubRoutes(r))}
\* The routes strictly two levels below the root.
GrandChildren(root) ==
    UNION {{root.Routes[i].Routes[j] : j \in 1..Len(root.Routes[i].Routes)} :
               i \in 1..Len(root.Routes)}
DeclaredNames(c) == {c.Receivers[i].Name : i \in 1..Len(c.Receivers)}
Validated == run.n >= 1 /\ ~run.given.Route.nil

\* C21, as stated: Validate returns an error for every Config in which some
\* route, at any depth, has a receiver name that is not the Name of a
\* receiver of the Config.
C21_UndeclaredRejected ==
    (/\ Validated
     /\ \E r \in RoutesOf(run.given.Route) : r.Receiver \notin DeclaredNames(run.given))
        => run.errs[1] # NoError
\* C21, amended: Validate returns an error for every Config in which some
\* route, at any depth, names a receiver (its receiver name is not empty)
\* that is not the Name of a receiver of the Config.
C21_UndeclaredNamedRejected ==
    (/\ Validated
     /\ \E r \in RoutesOf(run.given.Route) :
            r.Receiver # "" /\ r.Receiver \notin DeclaredNames(run.given))
        => run.errs[1] # NoError
\* Validate has rejected a Config whose only undeclared receiver is named two
\* levels below the root.
C21_Witness ==
    /\ Validated
    /\ run.errs[1] = "undefined receiver used in route"
    /\ \E r \in GrandChildren(run.given.Route) :
           r.Receiver # "" /\ r.Receiver \notin DeclaredNames(run.given)
    /\ \A r \in RoutesOf(run.given.Route) \ GrandChildren(run.given.Route) :
           r.Receiver \in DeclaredNames(run.given)

\* C22: Validate returns an error for every Config in which some route, the
\* root or a route below it, has a group_interval or repeat_interval of its
\* own that is zero.
C22_ZeroOverrideRejected ==
    (/\ Validated
     /\ \E r \in RoutesOf(run.given.Route) :
            r.GroupInterval = "0s" \/ r.RepeatInterval = "0s")
        => run.errs[1] # NoError

\* The constraints on the root route other than continue, and the errors
\* Validate has for the root route and for the receivers.
RootViolated(root) ==
    \/ root.Receiver = ""
    \/ root.Match # {} \/ root.MatchRE # {} \/ root.Matchers # <<>>
    \/ root.MuteTimeIntervals # <<>>
ReceiversViolated(rs) ==
    \/ \E i, j \in 1..Len(rs) : i < j /\ rs[i].Name = rs[j].Name
    \/ \E i \in 1..Len(rs) : rs[i].Slack = "nourl"
RootErrors ==
    {"cannot have continue in root route",
     "root route must specify a default receiver",
     "root route must not have any matchers",
     "root route must not have any mute time intervals"}
ReceiverErrors ==
    {"notification config name is not unique",
     "no global Slack API URL set either inline or in a file"}

C24_RejectedConfigUntouched ==
    (run.n >= 1 /\ run.errs[run.n] # NoError) => run.c = run.before

\* What the claims on Check and GetFailureReason speak of: the call that has
\* returned, the class of its status, and whether the details of the
\* response match a soft-failure pattern.
CheckReturned == run.n = 1 /\ run.fn = "Check"
ReasonReturned == run.n = 1 /\ run.fn = "GetFailureReason"
Is2xx(code) == code \in 200..299
Is4xx(code) == code \in 400..499
Is5xx(code) == code \in 500..599
SoftFailure == isMatched(RetryMsgs, Details(run.r, run.statusCode, run.body))

\* C25: Check with a 2xx status and details that match a soft-failure
\* pattern returns (true, non-nil error).
C25_SoftFailureRetried ==
    (CheckReturned /\ Is2xx(run.statusCode) /\ SoftFailure)
        => (run.checked.retry /\ ~run.checked.err.nil)

C27_ServerErrorRetried ==
    (CheckReturned /\ Is5xx(run.statusCode))
        => (run.checked.retry /\ ~run.checked.err.nil)
\* Check has returned for a 5xx status that is not among the RetryCodes.
C27_Witness ==
    /\ CheckReturned
    /\ run.statusCode = 503
    /\ run.r.RetryCodes = <<>>
    /\ run.body # NilBody
    /\ run.checked.retry

\* C28: for every status that is neither 2xx nor 5xx, Check returns a non-nil
\* error, and retry is true exactly when the status is one of the RetryCodes.
C28_RetryCodesDecide ==
    (CheckReturned /\ ~Is2xx(run.statusCode) /\ ~Is5xx(run.statusCode))
        => /\ ~run.checked.err.nil
           /\ run.checked.retry
                  <=> \E k \in 1..Len(run.r.RetryCodes) :
                          run.r.RetryCodes[k] = run.statusCode
\* Check(429, empty) has returned (true, error) for a Retrier with 429 among
\* its RetryCodes.
C28_Witness ==
    /\ CheckReturned
    /\ run.statusCode = 429
    /\ run.r.RetryCodes = <<429>>
    /\ Details(run.r, run.statusCode, run.body) = <<>>
    /\ run.checked.retry
    /\ ~run.checked.err.nil

\* C29: GetFailureReason returns a reason for every status and text:
\* ClientError when the status is 2xx and the text matches a soft-failure
\* pattern, ClientError for every 4xx status, ServerError for every 5xx
\* status, and Default for everything else.
C29_ReasonByClass ==
    ReasonReturned =>
        run.reason =
            IF Is2xx(run.statusCode) /\ isMatched(RetryMsgs, run.body.text)
            THEN "clientError"
            ELSE IF Is4xx(run.statusCode) THEN "clientError"
            ELSE IF Is5xx(run.statusCode) THEN "serverError"
            ELSE "other"
\* GetFailureReason has returned ClientError for a 2xx status with the text
\* of a soft failure.
C29_Witness ==
    /\ ReasonReturned
    /\ run.statusCode = 200
    /\ isMatched(RetryMsgs, run.body.text)
    /\ run.reason = "clientError"

\* C30: Check and GetFailureReason are stateless and reentrant.  Whatever
\* goroutines run beside it, a call returns what the function gives for its
\* own status code and text; no step of a call changes the Retrier or
\* RetryMsgs, and no step changes a local of another call.
C30_Reentrant ==
    [][/\ run'.r = run.r
       /\ run'.msgs = run.msgs
       /\ \A p \in Procs :
              /\ (run.g[p].pc = "return" /\ run'.g[p].pc = "idle")
                     => IF run.g[p].fn = "Check"
                        THEN run'.g[p].checked =
                                 Check(run.r, run.g[p].statusCode, run.g[p].body)
                        ELSE run'.g[p].reason =
                                 GetFailureReason(run.g[p].statusCode, run.g[p].body.text)
              /\ run'.g[p] # run.g[p]
                     => \A q \in Procs \ {p} : run'.g[q] = run.g[q]]_vars
\* A call of Check has returned (false, error) for a soft failure while
\* another goroutine is inside Check with a body that matches nothing.
C30_Witness ==
    \E p, q \in Procs :
        /\ p # q
        /\ run.g[p].pc = "idle"
        /\ run.g[p].fn = "Check"
        /\ run.g[p].matched
        /\ ~run.g[p].checked.err.nil
        /\ run.g[q].pc = "return"
        /\ run.g[q].fn = "Check"
        /\ ~run.g[q].matched

\* The URL an error bears: that of the *url.Error it is or wraps.
RECURSIVE URLsIn(_)
URLsIn(e) ==
    IF e.kind = "plain" THEN {}
    ELSE IF e.kind = "url" THEN {e.URL} \cup URLsIn(e.Err)
    ELSE URLsIn(e.cause)

\* C31: for every error that bears a URL, directly or inside another error,
\* the text of the error RedactURL returns contains neither the URL nor its
\* host nor its path.
C31_NoURLLeft ==
    run.n = 1 =>
        \A u \in URLsIn(run.given) :
            /\ ~Contains(ErrorText(run.out), u)
            /\ ~Contains(ErrorText(run.out), <<u[2]>>)
            /\ ~Contains(ErrorText(run.out), <<u[3]>>)

\* The marker each function appends.
MarkerOf(fn) == IF fn = "TruncateInRunes" THEN <<"U+2026">> ELSE <<".", ".", ".">>

\* C32: for every string s and every n >= 0, TruncateInRunes(s, n) and
\* Truncate(s, n) count code points, as []rune(s) decodes them, not bytes.
\* They return (s, false) when s has at most n code points.  Otherwise they
\* return true with a string of exactly n code points: the first n code
\* points of s when n <= 3, and a prefix of s followed by the marker of the
\* function when n > 3.
C32_CountsCodePoints ==
    run.n = 1 =>
        IF Len(run.s) <= run.size
        THEN run.out = Truncated(run.s, FALSE)
        ELSE /\ run.out.truncated
             /\ Len(Runes(run.out.s)) = run.size
             /\ run.size <= 3 => Runes(run.out.s) = SubSeq(Runes(run.s), 1, run.size)
             /\ run.size > 3 =>
                    \E k \in 0..Len(run.s) :
                        Runes(run.out.s) = SubSeq(Runes(run.s), 1, k) \o MarkerOf(run.fn)
\* Both functions have truncated a string whose characters take more than one
\* byte each, to a size above 3.
C32_Witness ==
    /\ run.n = 1
    /\ run.size = 4
    /\ Len(run.s) = 5
    /\ \A i \in 1..Len(run.s) : ByteLen(run.s[i]) > 1
    /\ run.out.truncated

\* The channels of an answer that fail: a channel whose data does not decode,
\* and a channel whose receiver has no name or the name of a receiver the
\* fresh Config already has (the default receiver, or an earlier channel that
\* was added).
RECURSIVE ChannelFails(_, _)
RECURSIVE NamesBefore(_, _)
NamesBefore(chs, i) ==
    IF i = 1 THEN {DefaultReceiver}
    ELSE NamesBefore(chs, i - 1)
         \cup (IF ChannelFails(chs, i - 1) THEN {} ELSE {chs[i - 1].Name})
ChannelFails(chs, i) ==
    ~chs[i].ok \/ chs[i].Name = "" \/ chs[i].Name \in NamesBefore(chs, i)
Failing(chs) == {i \in 1..Len(chs) : ChannelFails(chs, i)}
LastFailing(chs) == CHOOSE i \in Failing(chs) : \A j \in Failing(chs) : j <= i
ChannelError(ch) ==
    IF ~ch.ok THEN "failed to marshal receiver from query service"
    ELSE "failed to add route"
\* The names of the channels that do not fail, in order.
RECURSIVE GoodNames(_, _)
GoodNames(chs, i) ==
    IF i > Len(chs) THEN <<>>
    ELSE (IF ChannelFails(chs, i) THEN <<>> ELSE <<chs[i].Name>>) \o GoodNames(chs, i + 1)

\* C33: when decoding or adding one channel fails, the loader still processes
\* every other channel (the fresh Config gets the receiver of each channel
\* that does not fail) and Load returns the error of the last channel that
\* failed; Reload returns that error without calling a subscriber, and the
\* live Config is the one from before the call.
C33_PartialLoadRejected ==
    \A p \in Procs :
        (/\ pc[p] # "idle"
         /\ call[p].op = "Reload"
         /\ run.fetched
         /\ Failing(run.channels) # {})
            => /\ pc[p] = "ret"
               /\ err[p] = ChannelError(run.channels[LastFailing(run.channels)])
               /\ LiveView = pre[p]
               /\ LiveView = StartView
               /\ calls[p] = <<>>
               /\ LET filled == prepare(CfgFresh, run.channels, 1, NoError)
                  IN  ReceiverNames(ViewOf(filled.c, filled.ro, filled.ra))
                          = <<DefaultReceiver>> \o GoodNames(run.channels, 1)
\* Reload has returned the error of the second of two channels that fail in
\* different ways, with a channel after them that was added.
C33_Witness ==
    \E p \in Procs :
        /\ pc[p] = "ret"
        /\ call[p].op = "Reload"
        /\ Len(run.channels) = 3
        /\ Failing(run.channels) = {1, 2}
        /\ ~run.channels[1].ok
        /\ run.channels[2].ok
        /\ err[p] = "failed to add route"

\* C34: each invocation of the addRoute, editRoute and deleteRoute handlers
\* writes exactly one response: an error object, of type bad-data or
\* internal, when the request is malformed or the configuration update
\* returns an error, and the empty success response only when the update
\* succeeded.
C34_OneResponse ==
    run.n = 1 =>
        /\ Len(run.written) = 1
        /\ (Malformed(run.req) \/ run.req.update # NoError)
               => /\ run.written[1].status = "error"
                  /\ run.written[1].typ \in {"bad_data", "server_error"}
        /\ run.written[1].status = "success"
               => (~Malformed(run.req) /\ run.req.update = NoError)

\* No call is in progress: every caller has returned.
AllReturned == \A p \in Procs : pc[p] = "idle"

C36_RoutesMatchReceivers ==
    (AllReturned /\ config.set) =>
        LET routes == LiveView.Route.Routes
            rcvs == LiveView.Receivers
        IN  /\ \A i, j \in 1..Len(routes) :
                   routes[i].Receiver = routes[j].Receiver => i = j
            /\ \A i \in 1..Len(routes) :
                   Cardinality({k \in 1..Len(rcvs) :
                                    rcvs[k].Name = routes[i].Receiver}) = 1

\* A caller is between c.set and the end of OnUpdate: the Config is installed
\* and its subscribers are being notified.
Notifying == \E p \in Procs : pc[p] = "notify"

\* The step in which caller p leaves OnUpdate with nil: every subscriber has
\* been called and none failed.
InstallCompleted(p) ==
    /\ pc[p] = "notify" /\ pc'[p] = "ret" /\ err'[p] = NoError
    /\ Len(calls[p]) = Len(subscribers)
    /\ \A k \in 1..Len(calls[p]) : calls[p][k].ok

\* C37 as stated: whenever the success metric is 1, the hash metric equals
\* the hash of the live Config's original.
C37_HashOfOriginal ==
    configSuccessMetric = 1 => configHashMetric = md5HashAsMetricValue(config.original)

\* C37: the success metric is set to 1 and the hash metric is updated only
\* when an install completes with every subscriber succeeding; the success
\* metric is set to 0 on a loader failure and on a subscriber failure, and
\* both are left as they were by a mutation rejected before install.  Hence,
\* whenever the success metric is 1 and no caller is between c.set and the end
\* of OnUpdate, the hash metric equals the hash of the live Config's original.
C37_MetricsFollowInstall ==
    [][/\ ((configSuccessMetric = 0 /\ configSuccessMetric' = 1)
              \/ configHashMetric' # configHashMetric)
           => \E p \in Procs : InstallCompleted(p)
       /\ \A p \in Procs :
              /\ (pc[p] = "idle" /\ pc'[p] = "ret" /\ call'[p].op = "Reload")
                     => configSuccessMetric' = 0
              /\ (pc[p] = "notify" /\ pc'[p] = "ret" /\ err'[p] # NoError)
                     => configSuccessMetric' = 0
              /\ (pc[p] = "idle" /\ pc'[p] = "ret"
                  /\ call'[p].op \in {"AddRoute", "EditRoute", "DeleteRoute"})
                     => UNCHANGED <<configSuccessMetric, configHashMetric>>
       /\ (configSuccessMetric' = 1 /\ ~Notifying')
           => configHashMetric' = md5HashAsMetricValue(config'.original)]_vars

\* A successful AddRoute has notified a subscriber and set both metrics.
C37_Witness ==
    \E p \in Procs :
        /\ pc[p] = "ret" /\ call[p].op = "AddRoute" /\ err[p] = NoError
        /\ Len(calls[p]) > 0
        /\ configSuccessMetric = 1
        /\ configHashMetric = md5HashAsMetricValue(config.original)
        /\ Len(LiveView.Route.Routes) > 0

\* What the text of a config file spells, read without validation.
StoredInFile ==
    [Route |-> [Receiver |-> configFile.route.receiver,
                Continue |-> configFile.route.continue,
                Routes |-> [k \in 1..Len(configFile.route.routes) |->
                               Rt(configFile.route.routes[k].receiver,
                                  configFile.route.routes[k].continue)]],
     Receivers |-> [k \in 1..Len(configFile.receivers) |->
                       Rcv(configFile.receivers[k].name,
                           UnmarshalSecretURL(configFile.receivers[k].slack_api_url))]]

\* C38: in the file-backed Coordinator, after every AddRoute, EditRoute or
\* DeleteRoute call returns, with nil or with an error, and after the file has
\* been re-read by Reload, the cached configOnDisk is an exact copy of the
\* configuration currently stored in the config file.
C38_CacheIsFile ==
    (configOnDisk.set /\ call[1].op \in {"AddRoute", "EditRoute", "DeleteRoute", "Reload"})
        => ViewOf(configOnDisk, routeObj, recvArr) = StoredInFile

\* C39: a rejected mutation has no effect on later operations: with the calls
\* removed that returned a validation or precondition error, each of the
\* calls left returns what it returned, and the live Config at the end is
\* the same.
C39_RejectedCallsRemovable ==
    replay.set =>
        /\ ~replay.differs
        /\ AllReturned => LiveView = ViewOf(replay.c, replay.ro, replay.ra)

\* C40: every Reload, AddRoute, EditRoute, DeleteRoute and Subscribe call
\* eventually returns, with the mutex released, on every path, the error
\* returns included; the mutex is held only while a caller is inside a call,
\* so it is free again and again and a waiting caller can take it.
C40_CallsReturn ==
    /\ [](mutex <=> \E p \in Procs : pc[p] # "idle")
    /\ \A p \in Procs : (pc[p] # "idle") ~> (pc[p] = "idle" /\ ~mutex)

\* A call is about to return an error while it holds the mutex.
C40_Witness ==
    \E p \in Procs : pc[p] = "ret" /\ err[p] \in ValidateErrors /\ mutex

====
